---- MODULE Spec2Model ----
(***************************************************************************)
(* A model of the trading core of the oil-perps repository: the perps-core *)
(* ledger, the prop-AMM LP vault, the market-maker registry, the order     *)
(* book and the API oracle service.  Every on-chain instruction is one     *)
(* action that models the whole handler: the Anchor account constraints,   *)
(* the require! checks in source order, the token transfer (which fails    *)
(* the instruction when the paying account is short) and the record        *)
(* writes.  A failing instruction changes no record; the model notes the   *)
(* instruction and its error in `last`.                                    *)
(*                                                                         *)
(* The on-chain programs keep no common record, so each is explored by a   *)
(* specification of its own (SpecPerps, SpecAmm, SpecMm, SpecBook,         *)
(* SpecOracle); SpecLedger runs either ledger program from its initial     *)
(* state.  The clock and the Pyth feed account are the environment.        *)
(***************************************************************************)
EXTENDS Integers, Sequences, FiniteSets, TLC

VARIABLES
    now,          \* Clock::get()?.unix_timestamp
    feed,         \* the Pyth price account: [price, expo, publish_time]
    last,         \* the last instruction: [op, err, a]
    program,      \* which on-chain program this run exercises
    market,       \* perps-core Market records, by market
    vault,        \* perps-core Vault records, by market
    vaultTokens,  \* amount of each market's vault_token_account
    users,        \* perps-core UserAccount records, by owner
    positions,    \* perps-core Position accounts, in creation order
    lpVault,      \* prop-amm LpVault record
    lpTokens,     \* amount of the LP vault's token account
    lpPositions,  \* prop-amm LpPosition records, by owner
    ammTrades,    \* the trades opened against the LP vault, as their traders hold them
    registry,     \* mm-registry MmRegistry record
    mms,          \* mm-registry MarketMaker records, by owner
    mmTokens,     \* amount of each market maker's mm_collateral_account
    quotes,       \* mm-registry TwoSidedQuote accounts, by owner and seed index
    orderbook,    \* orderbook OrderBook record
    orders,       \* orderbook Order accounts, by sequence number + 1
    twelve_data_api_key,  \* oracle service: whether the backup API key is set
    oracleStatus, \* oracle service: the OracleStatus behind `status`
    oraclePrices, \* oracle service: the source of each price in `prices`
    oracleCache,  \* oracle service: the commodities that have a price in `cache`
    fetchTask,    \* the background fetch_prices task: where it is, its locals
    reader,       \* an is_trading_allowed call: where it is, its argument, result
    priceQuotes,  \* oracle service: price and timestamp of each entry of `prices`
    cacheQuotes,  \* oracle service: price and timestamp of each entry of `cache`
    observed,     \* the last get_price / get_all_prices call: what it returned
    closing,      \* a close_position call on 64-bit fields: its inputs and outcome
    referralCodes,  \* perps-core ReferralCode accounts, by code
    userReferrals,  \* perps-core UserReferral accounts, by user
    keeper          \* a keeper process: where its loop is, its locals

envVars   == <<now, feed>>
perpsVars == <<market, vault, vaultTokens, users, positions>>
ammVars   == <<lpVault, lpTokens, lpPositions, ammTrades>>
mmVars    == <<registry, mms, mmTokens, quotes>>
bookVars  == <<orderbook, orders>>
oracleVars == <<twelve_data_api_key, oracleStatus, oraclePrices, oracleCache,
                fetchTask, reader, priceQuotes, cacheQuotes, observed>>
referralVars == <<referralCodes, userReferrals>>
restVars  == <<mmVars, bookVars, oracleVars, closing, referralVars, keeper>>
nonPerps  == <<ammVars, restVars>>
nonAmm    == <<perpsVars, restVars>>
nonMm     == <<perpsVars, ammVars, bookVars, oracleVars, closing, referralVars, keeper>>
nonBook   == <<perpsVars, ammVars, mmVars, oracleVars, closing, referralVars, keeper>>
nonOracle == <<perpsVars, ammVars, mmVars, bookVars, closing, referralVars, keeper>>
vars      == <<now, feed, last, program, perpsVars, ammVars, restVars>>

-----------------------------------------------------------------------------
(* Integer helpers with Rust's semantics.                                  *)

\* Rust's `/` on signed integers truncates toward zero.
TruncDiv(a, b) == IF a >= 0 THEN a \div b ELSE -((-a) \div b)

\* u64::saturating_sub
SatSub(a, b) == IF a >= b THEN a - b ELSE 0

Max(a, b) == IF a >= b THEN a ELSE b

Min(a, b) == IF a <= b THEN a ELSE b

Abs(a) == IF a >= 0 THEN a ELSE -a

\* (a as u128 * b as u128 / d) without leaving the model checker's integers:
\* a = q*d + r gives floor(a*b/d) = q*b + floor(r*b/d).
MulDiv(a, b, d) == (a \div d) * b + ((a % d) * b) \div d

-----------------------------------------------------------------------------
(* Bounds of the model.                                                     *)

StartTime == 100

\* The age of the feed's price when the programs are initialised.
InitFeedAge == 28

MaxNow == 161

MaxDeposited == 400

-----------------------------------------------------------------------------
(* Environment: clock and Pyth feed.                                        *)

TickSteps == {32, 61}

FeedPrices == {10, 11}

\* get_price_no_older_than(current_time, 60)
MaxOracleAge == 60

\* floor((2^64 - 1) / 10^(6 + 8)): the largest raw price whose product with
\* 10^(6 + |expo|) still fits u64 when expo = -8.
MaxRawPriceExpo8 == 184467

Tick ==
    /\ \E d \in TickSteps :
         /\ now + d <= MaxNow
         /\ now' = now + d
    /\ last' = [op |-> "tick", err |-> "Ok", pos |-> 0]
    /\ UNCHANGED <<feed, program, perpsVars, ammVars, restVars>>

PublishPrice ==
    /\ \E p \in FeedPrices :
         feed' = [price |-> p, expo |-> -8, publish_time |-> now]
    /\ feed' # feed
    /\ last' = [op |-> "publish", err |-> "Ok", pos |-> 0]
    /\ UNCHANGED <<now, program, perpsVars, ammVars, restVars>>

\* A faulty oracle read: the age of the price is not looked at.
OracleErrAnyAge ==
    IF feed.price <= 0 THEN "InvalidOraclePrice"
    ELSE IF feed.expo = -8 /\ feed.price > MaxRawPriceExpo8 THEN "MathOverflow"
    ELSE "Ok"

\* The oracle read shared by every price-dependent handler: "StaleOraclePrice"
\* when the feed is older than 60 s, "InvalidOraclePrice" when price <= 0,
\* "MathOverflow" when price * 10^(6+|expo|) leaves u64, else "Ok".
OracleErr ==
    IF now - feed.publish_time > MaxOracleAge THEN "StaleOraclePrice"
    ELSE IF feed.price <= 0 THEN "InvalidOraclePrice"
    ELSE IF feed.expo = -8 /\ feed.price > MaxRawPriceExpo8 THEN "MathOverflow"
    ELSE "Ok"

\* price.checked_mul(10^(6+|expo|)) / 10^|expo|: the raw price times 10^6.
OraclePrice == feed.price * 1000000

-----------------------------------------------------------------------------
(* perps-core: records.  Fields no handler reads (bump, authority, mint,    *)
(* commodity tag, leverage, opened_at, last_updated_at, total_positions,    *)
(* total_trades) are left out.                                              *)

Markets == {"OIL"}

Users == {"u1", "u2"}

Sides == {"Long", "Short"}

\* The parameters given to initialize_market; they pass its validation
\* (0 < max_leverage <= 100000, maintenance > 0, initial > maintenance).
MarketParams ==
    [max_leverage |-> 20000, maintenance_margin_ratio |-> 600,
     initial_margin_ratio |-> 1000, taker_fee |-> 50, maker_fee |-> 20,
     liquidation_fee |-> 2500, max_open_interest |-> 300,
     funding_interval |-> 32]

\* Market as initialize_market leaves it.
InitMarket(params, t) ==
    [max_leverage |-> params.max_leverage,
     maintenance_margin_ratio |-> params.maintenance_margin_ratio,
     initial_margin_ratio |-> params.initial_margin_ratio,
     taker_fee |-> params.taker_fee,
     maker_fee |-> params.maker_fee,
     liquidation_fee |-> params.liquidation_fee,
     long_open_interest |-> 0,
     short_open_interest |-> 0,
     max_open_interest |-> params.max_open_interest,
     funding_rate |-> 0,
     last_funding_time |-> t,
     funding_interval |-> params.funding_interval,
     insurance_fund |-> 0,
     is_paused |-> FALSE]

\* UserAccount as initialize_user leaves it.
InitUser == [collateral_balance |-> 0, realized_pnl |-> 0]

\* Position::notional_value: size * entry_price / 1_000_000.
notional_value(p) == MulDiv(p.entry_price, p.size, 1000000)

\* Position::unrealized_pnl: (size * price_diff) / 1_000_000, truncating
\* toward zero.
unrealized_pnl(p, current_price) ==
    LET price_diff == IF p.side = "Long" THEN current_price - p.entry_price
                      ELSE p.entry_price - current_price
    IN  IF price_diff >= 0 THEN MulDiv(price_diff, p.size, 1000000)
        ELSE -MulDiv(-price_diff, p.size, 1000000)

\* Position::margin_ratio, in basis points.
margin_ratio(p, current_price) ==
    LET equity   == p.collateral + unrealized_pnl(p, current_price)
        notional == notional_value(p)
    IN  IF equity <= 0 THEN 0
        ELSE IF notional = 0 THEN 0
        ELSE (equity * 10000) \div notional

\* Position::is_liquidatable
is_liquidatable(p, current_price, maintenance_margin_ratio) ==
    margin_ratio(p, current_price) < maintenance_margin_ratio

\* Market::can_increase_long_oi / can_increase_short_oi
can_increase_long_oi(m, amount) ==
    m.long_open_interest + amount <= m.max_open_interest

can_increase_short_oi(m, amount) ==
    m.short_open_interest + amount <= m.max_open_interest

\* The outcome of an instruction, noted after it ran.
Note(op, err, pos) == [op |-> op, err |-> err, pos |-> pos]

InitEnv ==
    /\ now = StartTime
    /\ feed = [price |-> 10, expo |-> -8, publish_time |-> StartTime - InitFeedAge]
    /\ last = Note("init", "Ok", 0)

\* perps-core after initialize_market for every market and initialize_user
\* for every user.
InitPerpsState ==
    /\ market = [m \in Markets |-> InitMarket(MarketParams, StartTime)]
    /\ vault = [m \in Markets |-> [total_deposits |-> 0]]
    /\ vaultTokens = [m \in Markets |-> 0]
    /\ users = [u \in Users |-> InitUser]
    /\ positions = <<>>

-----------------------------------------------------------------------------
(* perps-core: instructions.  An instruction that fails leaves every record *)
(* as it was.  For close_position, liquidate and update_funding the failing  *)
(* call is a step that notes its error in `last`; the other instructions     *)
(* are enabled only when all their checks pass.                              *)

DepositAmounts == {200}

WithdrawAmounts == {200}

MarginAmounts == {200}

\* The (size, collateral) pairs traders ask for.
PositionOrders == {<<200, 200>>, <<100, 150>>}

Leverages == {10000}

PositionIds == 1..Len(positions)

\* deposit_collateral: the user's wallet is taken to hold the amount.
DepositCollateral(u, m, amount) ==
    /\ program = "perps"
    /\ vault[m].total_deposits + amount <= MaxDeposited
    /\ vaultTokens' = [vaultTokens EXCEPT ![m] = @ + amount]
    /\ users' = [users EXCEPT ![u].collateral_balance = @ + amount]
    /\ vault' = [vault EXCEPT ![m].total_deposits = @ + amount]
    /\ last' = Note("deposit_collateral", "Ok", 0)
    /\ UNCHANGED <<nonPerps, envVars, program, market, positions>>

WithdrawErr(u, m, amount) ==
    IF users[u].collateral_balance < amount THEN "InsufficientCollateral"
    ELSE IF vaultTokens[m] < amount THEN "TokenInsufficientFunds"
    ELSE IF vault[m].total_deposits < amount THEN "Panic"
    ELSE "Ok"

\* withdraw_collateral
WithdrawCollateral(u, m, amount) ==
    /\ program = "perps"
    /\ WithdrawErr(u, m, amount) = "Ok"
    /\ last' = Note("withdraw_collateral", "Ok", 0)
    /\ vaultTokens' = [vaultTokens EXCEPT ![m] = @ - amount]
    /\ users' = [users EXCEPT ![u].collateral_balance = @ - amount]
    /\ vault' = [vault EXCEPT ![m].total_deposits = @ - amount]
    /\ UNCHANGED <<nonPerps, envVars, program, market, positions>>

\* The margin the ledger asks for a new position:
\* notional * initial_margin_ratio / 10000 at the oracle price.
RequiredMargin(m, size) ==
    (MulDiv(OraclePrice, size, 1000000) * market[m].initial_margin_ratio) \div 10000

OpenErr(u, m, side, size, leverage, collateral) ==
    IF market[m].is_paused THEN "MarketPaused"
    ELSE IF leverage > market[m].max_leverage THEN "ExcessiveLeverage"
    ELSE IF OracleErr # "Ok" THEN OracleErr
    ELSE IF collateral < RequiredMargin(m, size) THEN "InsufficientCollateral"
    ELSE IF users[u].collateral_balance < collateral THEN "InsufficientCollateral"
    ELSE IF side = "Long" /\ ~can_increase_long_oi(market[m], size)
         THEN "OpenInterestCapExceeded"
    ELSE IF side = "Short" /\ ~can_increase_short_oi(market[m], size)
         THEN "OpenInterestCapExceeded"
    ELSE "Ok"

\* open_position.  Its handler is not in the repository; this follows the
\* description of the operation: leverage and margin checks, oracle price as
\* entry, collateral taken from the user's free balance, the side's open
\* interest raised within the cap, funding snapshot taken.
OpenPosition(u, m, side, size, leverage, collateral) ==
    /\ program = "perps"
    /\ OpenErr(u, m, side, size, leverage, collateral) = "Ok"
    /\ last' = Note("open_position", "Ok", Len(positions) + 1)
    /\ positions' = Append(positions,
           [owner |-> u, market |-> m, side |-> side, size |-> size,
            collateral |-> collateral, entry_price |-> OraclePrice,
            realized_pnl |-> 0,
            last_funding_payment |-> market[m].funding_rate,
            status |-> "Open"])
    /\ users' = [users EXCEPT ![u].collateral_balance = @ - collateral]
    /\ market' = [market EXCEPT
           ![m].long_open_interest = IF side = "Long" THEN @ + size ELSE @,
           ![m].short_open_interest = IF side = "Short" THEN @ + size ELSE @]
    /\ UNCHANGED <<nonPerps, envVars, program, vault, vaultTokens>>

\* A faulty account check: the position's status is not looked at.
OwnerOnlyErr(u, i) ==
    IF positions[i].owner # u THEN "Unauthorized" ELSE "Ok"

\* The account constraints on `position` shared by add_margin and
\* close_position, in the order they are written.
OwnerPositionErr(u, i) ==
    IF positions[i].owner # u THEN "Unauthorized"
    ELSE IF positions[i].status # "Open" THEN "PositionAlreadyClosed"
    ELSE "Ok"

AddMarginErr(u, i, amount) ==
    IF OwnerPositionErr(u, i) # "Ok" THEN OwnerPositionErr(u, i)
    ELSE IF users[u].collateral_balance < amount THEN "InsufficientCollateral"
    ELSE "Ok"

\* add_margin
AddMargin(u, i, amount) ==
    /\ program = "perps"
    /\ AddMarginErr(u, i, amount) = "Ok"
    /\ last' = Note("add_margin", "Ok", i)
    /\ users' = [users EXCEPT ![u].collateral_balance = @ - amount]
    /\ positions' = [positions EXCEPT ![i].collateral = @ + amount]
    /\ UNCHANGED <<nonPerps, envVars, program, market, vault, vaultTokens>>

\* Funding owed by a position since its snapshot: Long pays a rise of the
\* cumulative rate, Short receives it.
FundingPayment(p, funding_rate) ==
    LET funding_diff == funding_rate - p.last_funding_payment
    IN  IF p.side = "Long" THEN -TruncDiv(p.size * funding_diff, 1000000)
        ELSE TruncDiv(p.size * funding_diff, 1000000)

\* notional * taker_fee / 10000
CloseFee(p, taker_fee) == (notional_value(p) * taker_fee) \div 10000

\* pnl + funding_payment - fee
CloseTotalPnl(p, mk, price) ==
    unrealized_pnl(p, price) + FundingPayment(p, mk.funding_rate)
        - CloseFee(p, mk.taker_fee)

\* (collateral + total_pnl).max(0)
CloseSettlement(p, mk, price) == Max(p.collateral + CloseTotalPnl(p, mk, price), 0)

\* A faulty open-interest update: the opposite side loses the size.
ReduceOIOtherSide(mk, side, size) ==
    IF side = "Long"
    THEN [mk EXCEPT !.short_open_interest = SatSub(@, size)]
    ELSE [mk EXCEPT !.long_open_interest = SatSub(@, size)]

\* The open-interest update of close_position and liquidate: the position's
\* side loses its size, saturating at zero.
ReduceOI(mk, side, size) ==
    IF side = "Long"
    THEN [mk EXCEPT !.long_open_interest = SatSub(@, size)]
    ELSE [mk EXCEPT !.short_open_interest = SatSub(@, size)]

CloseErr(u, i) ==
    LET p == positions[i] IN
    IF OwnerPositionErr(u, i) # "Ok" THEN OwnerPositionErr(u, i)
    ELSE IF OracleErr # "Ok" THEN OracleErr
    ELSE IF vaultTokens[p.market] < CloseSettlement(p, market[p.market], OraclePrice)
         THEN "TokenInsufficientFunds"
    ELSE "Ok"

\* close_position
ClosePosition(u, i) ==
    LET p   == positions[i]
        m   == p.market
        tot == CloseTotalPnl(p, market[m], OraclePrice)
    IN
    /\ program = "perps"
    /\ last' = Note("close_position", CloseErr(u, i), i)
    /\ IF CloseErr(u, i) = "Ok"
       THEN /\ market' = [market EXCEPT ![m] =
                   [ReduceOI(@, p.side, p.size) EXCEPT
                       !.insurance_fund = @ + CloseFee(p, market[m].taker_fee)]]
            /\ positions' = [positions EXCEPT ![i].status = "Closed",
                                              ![i].realized_pnl = tot]
            /\ users' = [users EXCEPT ![u].realized_pnl = @ + tot]
            /\ vaultTokens' = [vaultTokens EXCEPT ![m] =
                   @ - CloseSettlement(p, market[m], OraclePrice)]
       ELSE UNCHANGED <<market, positions, users, vaultTokens>>
    /\ UNCHANGED <<nonPerps, envVars, program, vault>>

\* (collateral + pnl).max(0)
RemainingCollateral(p, price) == Max(p.collateral + unrealized_pnl(p, price), 0)

\* A faulty reward: the fee is taken on the collateral, not on what remains.
LiquidationRewardOnCollateral(p, mk, price) ==
    (p.collateral * mk.liquidation_fee) \div 10000

\* remaining_collateral * liquidation_fee / 10000
LiquidationReward(p, mk, price) ==
    (RemainingCollateral(p, price) * mk.liquidation_fee) \div 10000

LiquidateErr(i) ==
    LET p == positions[i] IN
    IF p.status # "Open" THEN "PositionAlreadyClosed"
    ELSE IF OracleErr # "Ok" THEN OracleErr
    ELSE IF ~is_liquidatable(p, OraclePrice, market[p.market].maintenance_margin_ratio)
         THEN "NotLiquidatable"
    ELSE IF vaultTokens[p.market] < LiquidationReward(p, market[p.market], OraclePrice)
         THEN "TokenInsufficientFunds"
    ELSE "Ok"

\* liquidate, called by any liquidator with the position's owner account.
Liquidate(liquidator, i) ==
    LET p      == positions[i]
        m      == p.market
        pnl    == unrealized_pnl(p, OraclePrice)
        reward == LiquidationReward(p, market[m], OraclePrice)
    IN
    /\ program = "perps"
    /\ last' = Note("liquidate", LiquidateErr(i), i)
    /\ IF LiquidateErr(i) = "Ok"
       THEN /\ market' = [market EXCEPT ![m] =
                   [ReduceOI(@, p.side, p.size) EXCEPT
                       !.insurance_fund =
                           @ + SatSub(RemainingCollateral(p, OraclePrice), reward)]]
            /\ positions' = [positions EXCEPT ![i].status = "Liquidated",
                                              ![i].realized_pnl = pnl]
            /\ users' = [users EXCEPT ![p.owner].realized_pnl = @ + pnl]
            /\ vaultTokens' = [vaultTokens EXCEPT ![m] = @ - reward]
       ELSE UNCHANGED <<market, positions, users, vaultTokens>>
    /\ UNCHANGED <<nonPerps, envVars, program, vault>>

\* <<(acc + k * r) \div d, (acc + k * r) % d>> for 0 <= acc < d and
\* 0 <= r < d, by k additions none of which leaves the checker's integers.
RECURSIVE AddTimes(_, _, _, _, _)
AddTimes(k, r, d, acc, carry) ==
    IF k = 0 THEN <<carry, acc>>
    ELSE IF acc >= d - r
         THEN AddTimes(k - 1, r, d, acc - (d - r), carry + 1)
         ELSE AddTimes(k - 1, r, d, acc + r, carry)

\* q * 10^n + (r * 10^n) \div d for 0 <= r < d: long division, one decimal
\* digit a round.
RECURSIVE LongDiv(_, _, _, _)
LongDiv(n, r, d, q) ==
    IF n = 0 THEN q
    ELSE LET s == AddTimes(10, r, d, 0, 0)
         IN  LongDiv(n - 1, s[2], d, q * 10 + s[1])

\* (x * 1_000_000) / d on i128 for d > 0: the exact product, divided with
\* truncation toward zero.
MillionthsOf(x, d) ==
    LET q == LongDiv(6, Abs(x) % d, d, Abs(x) \div d)
    IN  IF x >= 0 THEN q ELSE -q

\* A faulty rate: negative quotients are rounded away from zero.
FundingDeltaFloor(mk) ==
    LET total_oi == mk.long_open_interest + mk.short_open_interest
        diff     == mk.long_open_interest - mk.short_open_interest
    IN  IF total_oi > 0
        THEN (IF diff >= 0 THEN MillionthsOf(diff, total_oi) * 100
              ELSE -(MillionthsOf(-diff, total_oi) + 1) * 100) \div 1000000
        ELSE 0

\* The rate update_funding adds: the open-interest imbalance in millionths
\* times the base rate 100, or 0 without open interest.
FundingDelta(mk) ==
    LET total_oi == mk.long_open_interest + mk.short_open_interest
    IN  IF total_oi > 0
        THEN TruncDiv(MillionthsOf(mk.long_open_interest - mk.short_open_interest,
                                   total_oi) * 100, 1000000)
        ELSE 0

\* The keeper's estimate_funding_rate, which logs the rate the next
\* update_funding will add.
estimate_funding_rate(long_oi, short_oi) ==
    LET total == long_oi + short_oi
    IN  IF total = 0 THEN 0
        ELSE TruncDiv(MillionthsOf(long_oi - short_oi, total) * 100, 1000000)

\* A faulty check: the time since the last update is not looked at.
UpdateFundingErrAnyTime(m) == OracleErr

UpdateFundingErr(m) ==
    IF now - market[m].last_funding_time < market[m].funding_interval
    THEN "InvalidMarketConfig"
    ELSE OracleErr

\* update_funding
UpdateFunding(m) ==
    /\ program = "perps"
    /\ last' = Note("update_funding", UpdateFundingErr(m), 0)
    /\ IF UpdateFundingErr(m) = "Ok"
       THEN market' = [market EXCEPT
                ![m].funding_rate = @ + FundingDelta(market[m]),
                ![m].last_funding_time = now]
       ELSE UNCHANGED market
    /\ UNCHANGED <<nonPerps, envVars, program, vault, vaultTokens, users, positions>>

-----------------------------------------------------------------------------
(* perps-core: the referral ledger.  ReferralCode accounts are keyed by the  *)
(* code's bytes and UserReferral accounts by the user; `init` tells whether  *)
(* the account has been created.                                             *)

\* The codes callers send: two of printable uppercase characters and one
\* that is not.
ReferralCodeNames == {"OILA", "OILB", "oilc"}

\* ReferralCode::is_valid_code
is_valid_code(code) == code \in {"OILA", "OILB"}

\* ReferralCode::DEFAULT_DISCOUNT_BPS
DefaultDiscountBps == 500

NoReferralCode ==
    [init |-> FALSE, owner |-> "none", discount_bps |-> 0, total_referred |-> 0,
     pending_rewards |-> 0, created_at |-> 0, is_active |-> FALSE]

NoUserReferral ==
    [init |-> FALSE, referral_code |-> "none", referrer |-> "none",
     discount_bps |-> 0, applied_at |-> 0]

InitReferralState ==
    /\ referralCodes = [c \in ReferralCodeNames |-> NoReferralCode]
    /\ userReferrals = [u \in Users |-> NoUserReferral]

\* create_referral_code: `init` of the code's account comes first.
CreateReferralErr(code) ==
    IF referralCodes[code].init THEN "AccountInUse"
    ELSE IF ~is_valid_code(code) THEN "InvalidReferralCode"
    ELSE "Ok"

CreateReferralCode(owner, code) ==
    /\ program = "perps"
    /\ last' = Note("create_referral_code", CreateReferralErr(code), 0)
    /\ IF CreateReferralErr(code) = "Ok"
       THEN referralCodes' = [referralCodes EXCEPT ![code] =
                [init |-> TRUE, owner |-> owner,
                 discount_bps |-> DefaultDiscountBps,
                 total_referred |-> 0, pending_rewards |-> 0,
                 created_at |-> now, is_active |-> TRUE]]
       ELSE UNCHANGED referralCodes
    /\ UNCHANGED <<envVars, program, perpsVars, ammVars, mmVars, bookVars,
                   oracleVars, closing, userReferrals, keeper>>

ApplyReferralErrSelfAllowed(user, code) ==
    IF ~referralCodes[code].init THEN "AccountNotInitialized"
    ELSE IF ~referralCodes[code].is_active THEN "ReferralCodeInactive"
    ELSE IF userReferrals[user].init THEN "AccountInUse"
    ELSE "Ok"

\* The account constraints of apply_referral_code, in the order of the
\* accounts: the code exists, is active and is not the user's own; the
\* user's UserReferral account is created, which fails if it exists.
ApplyReferralErr(user, code) ==
    IF ~referralCodes[code].init THEN "AccountNotInitialized"
    ELSE IF ~referralCodes[code].is_active THEN "ReferralCodeInactive"
    ELSE IF referralCodes[code].owner = user THEN "SelfReferralNotAllowed"
    ELSE IF userReferrals[user].init THEN "AccountInUse"
    ELSE "Ok"

\* apply_referral_code
ApplyReferralCode(user, code) ==
    /\ program = "perps"
    /\ last' = Note("apply_referral_code", ApplyReferralErr(user, code), 0)
    /\ IF ApplyReferralErr(user, code) = "Ok"
       THEN /\ userReferrals' = [userReferrals EXCEPT ![user] =
                   [init |-> TRUE, referral_code |-> code,
                    referrer |-> referralCodes[code].owner,
                    discount_bps |-> referralCodes[code].discount_bps,
                    applied_at |-> now]]
            /\ referralCodes' = [referralCodes EXCEPT
                   ![code].total_referred = @ + 1]
       ELSE UNCHANGED <<referralCodes, userReferrals>>
    /\ UNCHANGED <<envVars, program, perpsVars, ammVars, mmVars, bookVars,
                   oracleVars, closing, keeper>>

ClaimReferralErr(owner, code, m) ==
    IF ~referralCodes[code].init THEN "AccountNotInitialized"
    ELSE IF referralCodes[code].owner # owner THEN "Unauthorized"
    ELSE IF ~(referralCodes[code].pending_rewards > 0) THEN "NoRewardsToClaim"
    ELSE IF ~(vaultTokens[m] >= referralCodes[code].pending_rewards)
         THEN "InsufficientVaultBalance"
    ELSE "Ok"

\* claim_referral_rewards: the pending rewards leave the market's vault.
ClaimReferralRewards(owner, code, m) ==
    /\ program = "perps"
    /\ last' = Note("claim_referral_rewards", ClaimReferralErr(owner, code, m), 0)
    /\ IF ClaimReferralErr(owner, code, m) = "Ok"
       THEN /\ referralCodes' = [referralCodes EXCEPT
                   ![code].pending_rewards = 0]
            /\ vaultTokens' = [vaultTokens EXCEPT
                   ![m] = @ - referralCodes[code].pending_rewards]
       ELSE UNCHANGED <<referralCodes, vaultTokens>>
    /\ UNCHANGED <<envVars, program, market, vault, users, positions, ammVars,
                   mmVars, bookVars, oracleVars, closing, userReferrals, keeper>>

-----------------------------------------------------------------------------
(* prop-amm: records and the LpVault arithmetic.  Fields no handler reads   *)
(* (authority, mint, cumulative_fees, cumulative_pnl, deposited_at, bump)   *)
(* are left out.                                                            *)

\* The parameters given to initialize_vault; they pass its validation
\* (max_exposure > 0, 0 < max_utilization <= 10000, lp_fee_share <= 10000).
VaultParams ==
    [max_exposure |-> 200, max_utilization |-> 8000, max_position_size |-> 200,
     base_spread |-> 10, max_skew_spread |-> 20, trading_fee |-> 10,
     lp_fee_share |-> 7000, withdrawal_delay |-> 60]

\* LpVault as initialize_vault leaves it.
InitLpVault(params) ==
    [total_assets |-> 0, total_shares |-> 0, pending_fees |-> 0,
     net_exposure |-> 0, total_long_size |-> 0, total_short_size |-> 0,
     unrealized_pnl |-> 0,
     max_exposure |-> params.max_exposure,
     max_utilization |-> params.max_utilization,
     max_position_size |-> params.max_position_size,
     base_spread |-> params.base_spread,
     max_skew_spread |-> params.max_skew_spread,
     trading_fee |-> params.trading_fee,
     lp_fee_share |-> params.lp_fee_share,
     withdrawal_delay |-> params.withdrawal_delay,
     is_active |-> TRUE]

\* LpPosition as the `init_if_needed` account starts.
InitLpPosition == [shares |-> 0, deposited_amount |-> 0, withdrawal_requested_at |-> 0]

\* LpVault::calculate_spread
calculate_spread(v, is_long) ==
    LET skew_ratio  == IF v.max_exposure > 0
                       THEN (Abs(v.net_exposure) * 10000) \div v.max_exposure
                       ELSE 0
        skew_spread == (skew_ratio * v.max_skew_spread) \div 10000
        total_spread == v.base_spread + skew_spread
        exposure_reducing == \/ is_long /\ v.net_exposure < 0
                             \/ ~is_long /\ v.net_exposure > 0
    IN  IF exposure_reducing THEN total_spread \div 2 ELSE total_spread

\* LpVault::calculate_entry_price
calculate_entry_price(v, oracle_price, is_long) ==
    LET spread == calculate_spread(v, is_long)
    IN  IF is_long THEN oracle_price + (oracle_price * spread) \div 10000
        ELSE oracle_price - (oracle_price * spread) \div 10000

\* LpVault::calculate_exit_price: the spread of the opposite side.
calculate_exit_price(v, oracle_price, is_long) ==
    LET spread == calculate_spread(v, ~is_long)
    IN  IF is_long THEN oracle_price - (oracle_price * spread) \div 10000
        ELSE oracle_price + (oracle_price * spread) \div 10000

\* LpVault::share_value: assets per share, scaled by 1e6.
share_value(v) ==
    IF v.total_shares = 0 THEN 1000000
    ELSE MulDiv(v.total_assets + v.unrealized_pnl, 1000000, v.total_shares)

\* LpVault::shares_for_deposit
shares_for_deposit(v, amount) ==
    IF v.total_shares = 0 THEN amount
    ELSE (amount * 1000000) \div share_value(v)

\* LpVault::assets_for_shares
assets_for_shares(v, shares) == MulDiv(share_value(v), shares, 1000000)

\* LpVault::can_accept_trade
can_accept_trade(v, size, is_long) ==
    LET new_exposure == IF is_long THEN v.net_exposure + size
                        ELSE v.net_exposure - size
        total_notional == v.total_long_size + v.total_short_size + size
        max_notional == (v.total_assets * v.max_utilization) \div 10000
    IN  IF ~v.is_active THEN FALSE
        ELSE IF size > v.max_position_size THEN FALSE
        ELSE IF Abs(new_exposure) > v.max_exposure THEN FALSE
        ELSE total_notional <= max_notional

\* LpVault::add_position
add_position(v, size, is_long) ==
    IF is_long
    THEN [v EXCEPT !.net_exposure = @ + size, !.total_long_size = @ + size]
    ELSE [v EXCEPT !.net_exposure = @ - size, !.total_short_size = @ + size]

\* LpVault::remove_position
remove_position(v, size, is_long) ==
    IF is_long
    THEN [v EXCEPT !.net_exposure = @ - size,
                   !.total_long_size = SatSub(@, size)]
    ELSE [v EXCEPT !.net_exposure = @ + size,
                   !.total_short_size = SatSub(@, size)]

\* LpVault::settle_pnl: the trader's loss and the LP share of the fee are
\* added to total_assets, the trader's gain is taken from it.
settle_pnl(v, trader_pnl, fee) ==
    LET vault_pnl == -trader_pnl
        lp_fee    == (fee * v.lp_fee_share) \div 10000
        assets    == IF vault_pnl >= 0 THEN v.total_assets + vault_pnl
                     ELSE SatSub(v.total_assets, -vault_pnl)
    IN  [v EXCEPT !.total_assets = assets + lp_fee,
                  !.pending_fees = @ + lp_fee]

\* A faulty eligibility test: the delay is not looked at.
can_withdraw_once_requested(lp, withdrawal_delay, current_time) ==
    lp.withdrawal_requested_at # 0

\* LpPosition::can_withdraw
can_withdraw(lp, withdrawal_delay, current_time) ==
    IF lp.withdrawal_requested_at = 0 THEN FALSE
    ELSE current_time >= lp.withdrawal_requested_at + withdrawal_delay

LpOwners == {"u1"}

\* prop-amm after initialize_vault.
InitAmmState ==
    /\ lpVault = InitLpVault(VaultParams)
    /\ lpTokens = 0
    /\ lpPositions = [u \in LpOwners |-> InitLpPosition]
    /\ ammTrades = <<>>

-----------------------------------------------------------------------------
(* prop-amm: instructions.                                                  *)

MaxLpTokens == 1000

MaxTrades == 2

LpDepositAmounts == {500}

LpShareAmounts == {250}

TradeSizes == {100}

\* The slippage limits traders send: none, or 10.5 on either side.
SlippageParams ==
    {[min_price |-> 0, max_price |-> 2000000000],
     [min_price |-> 10500000, max_price |-> 10500000]}

TradeIds == 1..Len(ammTrades)

AmmDepositErr(amount) ==
    IF ~lpVault.is_active THEN "VaultNotActive"
    ELSE IF amount <= 0 THEN "InvalidParameters"
    ELSE IF lpVault.total_shares # 0 /\ share_value(lpVault) = 0 THEN "Panic"
    ELSE IF shares_for_deposit(lpVault, amount) <= 0 THEN "MathOverflow"
    ELSE "Ok"

\* A faulty deposit: a pending withdrawal request is left standing.
AmmDepositKeepsRequest(u, amount) ==
    LET shares_to_mint == shares_for_deposit(lpVault, amount) IN
    /\ program = "amm"
    /\ lpTokens + amount <= MaxLpTokens
    /\ last' = Note("amm_deposit", AmmDepositErr(amount), 0)
    /\ IF AmmDepositErr(amount) = "Ok"
       THEN /\ lpTokens' = lpTokens + amount
            /\ lpVault' = [lpVault EXCEPT !.total_assets = @ + amount,
                                          !.total_shares = @ + shares_to_mint]
            /\ lpPositions' = [lpPositions EXCEPT
                   ![u].shares = @ + shares_to_mint,
                   ![u].deposited_amount = @ + amount]
       ELSE UNCHANGED <<lpTokens, lpVault, lpPositions>>
    /\ UNCHANGED <<nonAmm, envVars, program, ammTrades>>

\* deposit: the depositor's wallet is taken to hold the amount.
AmmDeposit(u, amount) ==
    LET shares_to_mint == shares_for_deposit(lpVault, amount) IN
    /\ program = "amm"
    /\ lpTokens + amount <= MaxLpTokens
    /\ last' = Note("amm_deposit", AmmDepositErr(amount), 0)
    /\ IF AmmDepositErr(amount) = "Ok"
       THEN /\ lpTokens' = lpTokens + amount
            /\ lpVault' = [lpVault EXCEPT !.total_assets = @ + amount,
                                          !.total_shares = @ + shares_to_mint]
            /\ lpPositions' = [lpPositions EXCEPT
                   ![u].shares = @ + shares_to_mint,
                   ![u].deposited_amount = @ + amount,
                   ![u].withdrawal_requested_at = 0]
       ELSE UNCHANGED <<lpTokens, lpVault, lpPositions>>
    /\ UNCHANGED <<nonAmm, envVars, program, ammTrades>>

RequestWithdrawalErr(u) ==
    IF lpPositions[u].shares <= 0 THEN "InsufficientShares"
    ELSE IF lpPositions[u].withdrawal_requested_at # 0 THEN "WithdrawalAlreadyRequested"
    ELSE "Ok"

\* request_withdrawal
AmmRequestWithdrawal(u) ==
    /\ program = "amm"
    /\ last' = Note("amm_request_withdrawal", RequestWithdrawalErr(u), 0)
    /\ IF RequestWithdrawalErr(u) = "Ok"
       THEN lpPositions' = [lpPositions EXCEPT ![u].withdrawal_requested_at = now]
       ELSE UNCHANGED lpPositions
    /\ UNCHANGED <<nonAmm, envVars, program, lpVault, lpTokens, ammTrades>>

AmmWithdrawErr(u, shares_to_burn) ==
    IF ~can_withdraw(lpPositions[u], lpVault.withdrawal_delay, now)
    THEN "WithdrawalDelayNotElapsed"
    ELSE IF shares_to_burn > lpPositions[u].shares THEN "InsufficientShares"
    ELSE IF shares_to_burn <= 0 THEN "InvalidParameters"
    ELSE IF assets_for_shares(lpVault, shares_to_burn) > lpVault.total_assets
         THEN "InsufficientVaultBalance"
    ELSE IF lpTokens < assets_for_shares(lpVault, shares_to_burn)
         THEN "TokenInsufficientFunds"
    ELSE "Ok"

\* withdraw
AmmWithdraw(u, shares_to_burn) ==
    LET lp == lpPositions[u]
        assets_to_return == assets_for_shares(lpVault, shares_to_burn)
        burn_ratio == (shares_to_burn * 1000000) \div lp.shares
        deposited_reduction == (lp.deposited_amount * burn_ratio) \div 1000000
    IN
    /\ program = "amm"
    /\ last' = Note("amm_withdraw", AmmWithdrawErr(u, shares_to_burn), 0)
    /\ IF AmmWithdrawErr(u, shares_to_burn) = "Ok"
       THEN /\ lpTokens' = lpTokens - assets_to_return
            /\ lpVault' = [lpVault EXCEPT !.total_assets = @ - assets_to_return,
                                          !.total_shares = @ - shares_to_burn]
            /\ lpPositions' = [lpPositions EXCEPT
                   ![u].shares = @ - shares_to_burn,
                   ![u].withdrawal_requested_at = 0,
                   ![u].deposited_amount = SatSub(@, deposited_reduction)]
       ELSE UNCHANGED <<lpTokens, lpVault, lpPositions>>
    /\ UNCHANGED <<nonAmm, envVars, program, ammTrades>>

AmmOpenErr(size, is_long, slip) ==
    IF ~lpVault.is_active THEN "VaultNotActive"
    ELSE IF ~can_accept_trade(lpVault, size, is_long) THEN "ExposureLimitExceeded"
    ELSE IF OracleErr # "Ok" THEN OracleErr
    ELSE IF is_long /\ calculate_entry_price(lpVault, OraclePrice, is_long) > slip.max_price
         THEN "InvalidParameters"
    ELSE IF ~is_long /\ calculate_entry_price(lpVault, OraclePrice, is_long) < slip.min_price
         THEN "InvalidParameters"
    ELSE "Ok"

\* prop-amm open_position: only the vault's exposure is written; the trader
\* keeps the returned entry price.
AmmOpenPosition(size, is_long, slip) ==
    /\ program = "amm"
    /\ Len(ammTrades) < MaxTrades
    /\ last' = Note("amm_open_position", AmmOpenErr(size, is_long, slip),
                    Len(ammTrades) + 1)
    /\ IF AmmOpenErr(size, is_long, slip) = "Ok"
       THEN /\ lpVault' = add_position(lpVault, size, is_long)
            /\ ammTrades' = Append(ammTrades,
                   [is_long |-> is_long, size |-> size,
                    entry_price |-> calculate_entry_price(lpVault, OraclePrice, is_long),
                    open |-> TRUE])
       ELSE UNCHANGED <<lpVault, ammTrades>>
    /\ UNCHANGED <<nonAmm, envVars, program, lpTokens, lpPositions>>

\* ((size * price_diff) / 1_000_000) of the prop-amm close.
AmmPnl(t, exit_price) ==
    IF t.is_long THEN TruncDiv(t.size * (exit_price - t.entry_price), 1000000)
    ELSE TruncDiv(t.size * (t.entry_price - exit_price), 1000000)

\* notional * trading_fee / 10000 at the exit price.
AmmCloseFee(t, exit_price) ==
    (MulDiv(exit_price, t.size, 1000000) * lpVault.trading_fee) \div 10000

\* pnl - fee for a winning trader, nothing for a losing one.
AmmSettlement(t, exit_price) ==
    IF AmmPnl(t, exit_price) >= 0
    THEN SatSub(AmmPnl(t, exit_price), AmmCloseFee(t, exit_price))
    ELSE 0

AmmCloseErr(i, slip) ==
    LET t == ammTrades[i]
        exit_price == calculate_exit_price(lpVault, OraclePrice, t.is_long)
    IN
    IF ~lpVault.is_active THEN "VaultNotActive"
    ELSE IF OracleErr # "Ok" THEN OracleErr
    ELSE IF t.is_long /\ exit_price < slip.min_price THEN "InvalidParameters"
    ELSE IF ~t.is_long /\ exit_price > slip.max_price THEN "InvalidParameters"
    ELSE IF lpTokens < AmmSettlement(t, exit_price) THEN "TokenInsufficientFunds"
    ELSE "Ok"

\* prop-amm close_position, called with the size, side and entry price of a
\* trade that was opened and not yet closed.
AmmClosePosition(i, slip) ==
    LET t == ammTrades[i]
        exit_price == calculate_exit_price(lpVault, OraclePrice, t.is_long)
    IN
    /\ program = "amm"
    /\ ammTrades[i].open
    /\ last' = Note("amm_close_position", AmmCloseErr(i, slip), i)
    /\ IF AmmCloseErr(i, slip) = "Ok"
       THEN /\ lpVault' = settle_pnl(remove_position(lpVault, t.size, t.is_long),
                                     AmmPnl(t, exit_price), AmmCloseFee(t, exit_price))
            /\ lpTokens' = lpTokens - AmmSettlement(t, exit_price)
            /\ ammTrades' = [ammTrades EXCEPT ![i].open = FALSE]
       ELSE UNCHANGED <<lpVault, lpTokens, ammTrades>>
    /\ UNCHANGED <<nonAmm, envVars, program, lpPositions>>

\* The entry prices callers of close_position state: those the opens
\* returned, 9 and 11.
ClaimedEntryPrices ==
    {ammTrades[i].entry_price : i \in TradeIds} \cup {9000000, 11000000}

\* The net exposure of the open trades among the first n.  The runs call
\* close_position while the vault's net exposure is that of the open trades:
\* they end with the first close that matched none.
RECURSIVE OpenExposure(_)
OpenExposure(n) ==
    IF n = 0 THEN 0
    ELSE OpenExposure(n - 1)
         + (IF ~ammTrades[n].open THEN 0
            ELSE IF ammTrades[n].is_long THEN ammTrades[n].size
            ELSE -ammTrades[n].size)

\* The open trades with the size, side and entry price t.
MatchingTrades(t) ==
    {i \in TradeIds : /\ ammTrades[i].open
                      /\ ammTrades[i].size = t.size
                      /\ ammTrades[i].is_long = t.is_long
                      /\ ammTrades[i].entry_price = t.entry_price}

AmmCloseParamsErr(t, slip) ==
    LET exit_price == calculate_exit_price(lpVault, OraclePrice, t.is_long)
    IN
    IF ~lpVault.is_active THEN "VaultNotActive"
    ELSE IF OracleErr # "Ok" THEN OracleErr
    ELSE IF t.is_long /\ exit_price < slip.min_price THEN "InvalidParameters"
    ELSE IF ~t.is_long /\ exit_price > slip.max_price THEN "InvalidParameters"
    ELSE IF lpTokens < AmmSettlement(t, exit_price) THEN "TokenInsufficientFunds"
    ELSE "Ok"

\* prop-amm close_position, called with any ClosePositionParams: the program
\* keeps no account of the trades, so ammTrades, the record of what the
\* traders opened, marks the first open trade with these parameters closed,
\* if there is one.
AmmClosePositionParams(t, slip) ==
    LET exit_price == calculate_exit_price(lpVault, OraclePrice, t.is_long)
        matching == MatchingTrades(t)
        first == IF matching = {} THEN 0
                 ELSE CHOOSE i \in matching : \A j \in matching : i <= j
    IN
    /\ program = "amm"
    /\ lpVault.net_exposure = OpenExposure(Len(ammTrades))
    /\ last' = Note("amm_close_position", AmmCloseParamsErr(t, slip), first)
    /\ IF AmmCloseParamsErr(t, slip) = "Ok"
       THEN /\ lpVault' = settle_pnl(remove_position(lpVault, t.size, t.is_long),
                                     AmmPnl(t, exit_price), AmmCloseFee(t, exit_price))
            /\ lpTokens' = lpTokens - AmmSettlement(t, exit_price)
            /\ ammTrades' = IF first = 0 THEN ammTrades
                            ELSE [ammTrades EXCEPT ![first].open = FALSE]
       ELSE UNCHANGED <<lpVault, lpTokens, ammTrades>>
    /\ UNCHANGED <<nonAmm, envVars, program, lpPositions>>

-----------------------------------------------------------------------------
(* mm-registry: records and their arithmetic.                               *)

MmOwners == {"mm1"}

\* The quote accounts a market maker may have at a time in the model (the
\* quote PDA is seeded by market_maker.active_quotes).
MaxQuoteSlots == 1

QuoteSlots == 0..(MaxQuoteSlots - 1)

MaxMmDeposited == 1500

MaxFills == 3

\* Option::None of the Option<u64> parameters of update_quote.
NoneU64 == -1

unwrap_or(opt, default) == IF opt = NoneU64 THEN default ELSE opt

RegistryParams ==
    [min_collateral |-> 500, max_spread |-> 500, min_quote_size |-> 100,
     max_quote_size |-> 10000, mm_fee |-> 100]

\* initialize_registry: the record it writes; it requires min_collateral > 0,
\* 0 < max_spread <= 1000, 0 < min_quote_size < max_quote_size, mm_fee <= 100.
InitRegistry(params) ==
    [min_collateral |-> params.min_collateral, max_spread |-> params.max_spread,
     min_quote_size |-> params.min_quote_size,
     max_quote_size |-> params.max_quote_size, mm_fee |-> params.mm_fee,
     total_mms |-> 0, active_quotes |-> 0, total_volume |-> 0, total_fees |-> 0,
     is_open |-> TRUE, is_trading_enabled |-> TRUE]

\* A MarketMaker account that register_mm has not created yet.
NoMarketMaker ==
    [init |-> FALSE, collateral_deposited |-> 0, collateral_locked |-> 0,
     collateral_available |-> 0, inventory |-> 0, avg_inventory_price |-> 0,
     realized_pnl |-> 0, total_volume |-> 0, total_fills |-> 0,
     total_fees_paid |-> 0, active_quotes |-> 0, max_quotes |-> 0,
     status |-> "Inactive"]

\* A TwoSidedQuote account that does not exist (never created, or closed).
NoQuote ==
    [init |-> FALSE, bid_price |-> 0, bid_size |-> 0, bid_remaining |-> 0,
     ask_price |-> 0, ask_size |-> 0, ask_remaining |-> 0, min_fill_size |-> 0,
     collateral_locked |-> 0, expires_at |-> 0, is_active |-> FALSE]

\* (size as u128 * price as u128 / 1_000_000) as u64, computed on the base-1000
\* digits of size and price so that no intermediate leaves the model
\* checker's integers.
Notional(size, price) ==
    (size \div 1000) * (price \div 1000)
    + ((size \div 1000) * (price % 1000) + (size % 1000) * (price \div 1000)
       + ((size % 1000) * (price % 1000)) \div 1000) \div 1000

\* max(bid notional, ask notional) / 10: the collateral a quote locks.
QuoteCollateral(bid_size, bid_price, ask_size, ask_price) ==
    Max(Notional(bid_size, bid_price), Notional(ask_size, ask_price)) \div 10

has_available_collateral(mm, amount) == mm.collateral_available >= amount

lock_collateral(mm, amount) ==
    [mm EXCEPT !.collateral_locked = mm.collateral_locked + amount,
               !.collateral_available =
                   SatSub(mm.collateral_deposited, mm.collateral_locked + amount)]

unlock_collateral(mm, amount) ==
    [mm EXCEPT !.collateral_locked = SatSub(mm.collateral_locked, amount),
               !.collateral_available =
                   SatSub(mm.collateral_deposited,
                          SatSub(mm.collateral_locked, amount))]

\* MarketMaker::update_inventory
update_inventory(mm, size, price, is_buy) ==
    LET signed_size == IF is_buy THEN size ELSE -size
        inv         == mm.inventory
        same_side   == (inv > 0 /\ signed_size > 0) \/ (inv < 0 /\ signed_size < 0)
    IN  IF inv = 0
        THEN [mm EXCEPT !.inventory = signed_size, !.avg_inventory_price = price]
        ELSE IF same_side
        THEN [mm EXCEPT
                 !.avg_inventory_price =
                     (Abs(inv) * mm.avg_inventory_price + Abs(signed_size) * price)
                         \div (Abs(inv) + Abs(signed_size)),
                 !.inventory = inv + signed_size]
        ELSE LET close_size == Min(Abs(signed_size), Abs(inv))
                 pnl == IF inv > 0
                        THEN TruncDiv((price - mm.avg_inventory_price) * close_size,
                                      1000000)
                        ELSE TruncDiv((mm.avg_inventory_price - price) * close_size,
                                      1000000)
                 new_inv == inv + signed_size
             IN  [mm EXCEPT
                     !.realized_pnl = mm.realized_pnl + pnl,
                     !.inventory = new_inv,
                     !.avg_inventory_price =
                         IF (new_inv > 0 /\ signed_size > 0)
                            \/ (new_inv < 0 /\ signed_size < 0)
                         THEN price ELSE mm.avg_inventory_price]

\* TwoSidedQuote::is_valid
quote_is_valid(q, current_time) ==
    /\ q.is_active
    /\ ~(q.expires_at > 0 /\ current_time > q.expires_at)
    /\ (q.bid_remaining > 0 \/ q.ask_remaining > 0)

\* 2^32 = Two32Hi * 10000 + Two32Lo
Two32Hi == 429496

Two32Lo == 7296

\* The exact quotient (ask - bid) * 10000 / bid of the u128 division, as the
\* pair <<q \div 10000, q % 10000>>.
SpreadQuotient(bid_price, ask_price) ==
    <<(ask_price - bid_price) \div bid_price,
      (((ask_price - bid_price) % bid_price) * 10000) \div bid_price>>

\* `as u32` on that quotient: its value modulo 2^32, as the same kind of pair.
RECURSIVE AsU32(_)
AsU32(q) ==
    IF q[1] > Two32Hi \/ (q[1] = Two32Hi /\ q[2] >= Two32Lo)
    THEN AsU32(IF q[2] >= Two32Lo
               THEN <<q[1] - Two32Hi, q[2] - Two32Lo>>
               ELSE <<q[1] - Two32Hi - 1, q[2] + 10000 - Two32Lo>>)
    ELSE q

\* q <= bound, for a pair q and an integer bound.
PairLeq(q, bound) ==
    \/ q[1] < bound \div 10000
    \/ q[1] = bound \div 10000 /\ q[2] <= bound % 10000

\* spread <= registry.max_spread, with spread the quotient cast to u32.
SpreadAccepted(bid_price, ask_price) ==
    PairLeq(AsU32(SpreadQuotient(bid_price, ask_price)), registry.max_spread)

InitMmState ==
    /\ registry = InitRegistry(RegistryParams)
    /\ mms = [o \in MmOwners |-> NoMarketMaker]
    /\ mmTokens = [o \in MmOwners |-> 0]
    /\ quotes = [o \in MmOwners |-> [i \in QuoteSlots |-> NoQuote]]

-----------------------------------------------------------------------------
(* mm-registry: instructions.                                               *)

RegisterAmounts == {1000}

MmDepositAmounts == {500}

MmWithdrawAmounts == {500}

\* expires_in of a quote that expires.
QuoteLifetime == 40

\* [bid_price, bid_size, ask_price, ask_size, min_fill_size, expires_in]
PostQuoteParams ==
    {[bid_price |-> 100000, bid_size |-> 10000, ask_price |-> 101000,
      ask_size |-> 10000, min_fill_size |-> 5000, expires_in |-> 0],
     [bid_price |-> 100000, bid_size |-> 10000, ask_price |-> 101000,
      ask_size |-> 10000, min_fill_size |-> 5000, expires_in |-> QuoteLifetime],
     [bid_price |-> 16, bid_size |-> 100, ask_price |-> 6871964,
      ask_size |-> 100, min_fill_size |-> 100, expires_in |-> 0],
     [bid_price |-> 100000, bid_size |-> 10000, ask_price |-> 120000,
      ask_size |-> 10000, min_fill_size |-> 5000, expires_in |-> 0]}

\* [bid_price, bid_size, ask_price, ask_size], each a value or None
UpdateQuoteParams ==
    {[bid_price |-> NoneU64, bid_size |-> NoneU64, ask_price |-> NoneU64,
      ask_size |-> NoneU64],
     [bid_price |-> NoneU64, bid_size |-> NoneU64, ask_price |-> 102000,
      ask_size |-> NoneU64],
     [bid_price |-> 16, bid_size |-> 100, ask_price |-> 6871964,
      ask_size |-> 100]}

FillSizes == {5000}

\* register_mm: creates the MarketMaker and its collateral account and moves
\* initial_collateral into it.
RegisterMm(o, initial_collateral) ==
    /\ program = "mm"
    /\ registry.is_open
    /\ ~mms[o].init
    /\ initial_collateral >= registry.min_collateral
    /\ mmTokens' = [mmTokens EXCEPT ![o] = initial_collateral]
    /\ mms' = [mms EXCEPT ![o] =
                 [init |-> TRUE, collateral_deposited |-> initial_collateral,
                  collateral_locked |-> 0,
                  collateral_available |-> initial_collateral,
                  inventory |-> 0, avg_inventory_price |-> 0, realized_pnl |-> 0,
                  total_volume |-> 0, total_fills |-> 0, total_fees_paid |-> 0,
                  active_quotes |-> 0, max_quotes |-> 10, status |-> "Active"]]
    /\ registry' = [registry EXCEPT !.total_mms = registry.total_mms + 1]
    /\ last' = Note("register_mm", "Ok", 0)
    /\ UNCHANGED <<nonMm, envVars, program, quotes>>

\* mm-registry deposit_collateral
MmDepositCollateral(o, amount) ==
    /\ program = "mm"
    /\ mms[o].init
    /\ mms[o].status # "Deregistered"
    /\ amount > 0
    /\ mms[o].collateral_deposited + amount <= MaxMmDeposited
    /\ mmTokens' = [mmTokens EXCEPT ![o] = mmTokens[o] + amount]
    /\ mms' = [mms EXCEPT
                 ![o].collateral_deposited = mms[o].collateral_deposited + amount,
                 ![o].collateral_available = mms[o].collateral_available + amount]
    /\ last' = Note("mm_deposit_collateral", "Ok", 0)
    /\ UNCHANGED <<nonMm, envVars, program, registry, quotes>>

MmWithdrawErr(o, amount) ==
    IF ~mms[o].init THEN "AccountNotInitialized"
    ELSE IF amount <= 0 THEN "InvalidQuoteParams"
    ELSE IF amount > mms[o].collateral_available THEN "CollateralLocked"
    ELSE IF mms[o].status = "Active" /\ mms[o].collateral_deposited < amount
         THEN "Panic"
    ELSE IF mms[o].status = "Active"
            /\ mms[o].collateral_deposited - amount < registry.min_collateral
         THEN "InsufficientCollateral"
    ELSE IF mmTokens[o] < amount THEN "TokenInsufficientFunds"
    ELSE IF mms[o].collateral_deposited < amount THEN "Panic"
    ELSE "Ok"

\* mm-registry withdraw_collateral
MmWithdrawCollateral(o, amount) ==
    /\ program = "mm"
    /\ MmWithdrawErr(o, amount) = "Ok"
    /\ mmTokens' = [mmTokens EXCEPT ![o] = mmTokens[o] - amount]
    /\ mms' = [mms EXCEPT
                 ![o].collateral_deposited = mms[o].collateral_deposited - amount,
                 ![o].collateral_available = mms[o].collateral_available - amount]
    /\ last' = Note("mm_withdraw_collateral", "Ok", 0)
    /\ UNCHANGED <<nonMm, envVars, program, registry, quotes>>

PostQuoteErr(o, p) ==
    IF ~registry.is_trading_enabled THEN "TradingDisabled"
    ELSE IF ~mms[o].init THEN "AccountNotInitialized"
    ELSE IF mms[o].status # "Active" THEN "MarketMakerNotActive"
    ELSE IF mms[o].active_quotes \notin QuoteSlots THEN "NoQuoteSlot"
    ELSE IF quotes[o][mms[o].active_quotes].init THEN "AccountInUse"
    ELSE IF ~(p.bid_price > 0) THEN "InvalidPrice"
    ELSE IF ~(p.ask_price > p.bid_price) THEN "InvalidPrice"
    ELSE IF ~(p.bid_size >= registry.min_quote_size
              /\ p.bid_size <= registry.max_quote_size) THEN "QuoteSizeTooSmall"
    ELSE IF ~(p.ask_size >= registry.min_quote_size
              /\ p.ask_size <= registry.max_quote_size) THEN "QuoteSizeTooLarge"
    ELSE IF ~SpreadAccepted(p.bid_price, p.ask_price) THEN "SpreadTooWide"
    ELSE IF ~(mms[o].active_quotes < mms[o].max_quotes) THEN "MaxQuotesReached"
    ELSE IF ~has_available_collateral(mms[o],
                 QuoteCollateral(p.bid_size, p.bid_price, p.ask_size, p.ask_price))
         THEN "InsufficientCollateral"
    ELSE "Ok"

\* post_quote: creates the quote account seeded by active_quotes and locks
\* its collateral.
PostQuote(o, p) ==
    /\ program = "mm"
    /\ PostQuoteErr(o, p) = "Ok"
    /\ LET slot == mms[o].active_quotes
           collateral_required ==
               QuoteCollateral(p.bid_size, p.bid_price, p.ask_size, p.ask_price)
       IN  /\ quotes' = [quotes EXCEPT ![o][slot] =
                  [init |-> TRUE, bid_price |-> p.bid_price,
                   bid_size |-> p.bid_size, bid_remaining |-> p.bid_size,
                   ask_price |-> p.ask_price, ask_size |-> p.ask_size,
                   ask_remaining |-> p.ask_size,
                   min_fill_size |-> p.min_fill_size,
                   collateral_locked |-> collateral_required,
                   expires_at |-> IF p.expires_in > 0 THEN now + p.expires_in ELSE 0,
                   is_active |-> TRUE]]
           /\ mms' = [mms EXCEPT ![o] =
                  [lock_collateral(mms[o], collateral_required)
                      EXCEPT !.active_quotes = mms[o].active_quotes + 1]]
           /\ last' = Note("post_quote", "Ok", slot)
    /\ registry' = [registry EXCEPT !.active_quotes = registry.active_quotes + 1]
    /\ UNCHANGED <<nonMm, envVars, program, mmTokens>>

\* The prices, sizes and collateral requirement update_quote computes.
UpdatedQuote(q, p) ==
    LET new_bid_price == unwrap_or(p.bid_price, q.bid_price)
        new_ask_price == unwrap_or(p.ask_price, q.ask_price)
        new_bid_size  == unwrap_or(p.bid_size, q.bid_size)
        new_ask_size  == unwrap_or(p.ask_size, q.ask_size)
        new_bid_remaining == SatSub(new_bid_size, q.bid_size - q.bid_remaining)
        new_ask_remaining == SatSub(new_ask_size, q.ask_size - q.ask_remaining)
    IN  [q EXCEPT !.bid_price = new_bid_price, !.bid_size = new_bid_size,
                  !.bid_remaining = new_bid_remaining,
                  !.ask_price = new_ask_price, !.ask_size = new_ask_size,
                  !.ask_remaining = new_ask_remaining,
                  !.collateral_locked =
                      QuoteCollateral(new_bid_remaining, new_bid_price,
                                      new_ask_remaining, new_ask_price)]

UpdateQuoteErr(o, i, p) ==
    IF ~registry.is_trading_enabled THEN "TradingDisabled"
    ELSE IF ~mms[o].init \/ ~quotes[o][i].init THEN "AccountNotInitialized"
    ELSE IF mms[o].status # "Active" THEN "MarketMakerNotActive"
    ELSE IF ~quotes[o][i].is_active THEN "QuoteNotActive"
    ELSE LET q == quotes[o][i]
             n == UpdatedQuote(q, p)
         IN  IF ~(n.bid_price > 0) THEN "InvalidPrice"
             ELSE IF ~(n.ask_price > n.bid_price) THEN "InvalidPrice"
             ELSE IF ~SpreadAccepted(n.bid_price, n.ask_price) THEN "SpreadTooWide"
             ELSE IF ~(n.bid_size >= registry.min_quote_size
                       /\ n.bid_size <= registry.max_quote_size)
                  THEN "QuoteSizeTooSmall"
             ELSE IF ~(n.ask_size >= registry.min_quote_size
                       /\ n.ask_size <= registry.max_quote_size)
                  THEN "QuoteSizeTooLarge"
             ELSE IF n.collateral_locked > q.collateral_locked
                     /\ ~has_available_collateral(mms[o],
                            n.collateral_locked - q.collateral_locked)
                  THEN "InsufficientCollateral"
             ELSE "Ok"

\* update_quote: new prices and sizes; the market maker's locked collateral
\* moves by the difference to the quote's recorded collateral.
UpdateQuote(o, i, p) ==
    /\ program = "mm"
    /\ UpdateQuoteErr(o, i, p) = "Ok"
    /\ LET q == quotes[o][i]
           n == UpdatedQuote(q, p)
       IN  /\ mms' = [mms EXCEPT ![o] =
                  IF n.collateral_locked > q.collateral_locked
                  THEN lock_collateral(mms[o],
                           n.collateral_locked - q.collateral_locked)
                  ELSE IF n.collateral_locked < q.collateral_locked
                  THEN unlock_collateral(mms[o],
                           q.collateral_locked - n.collateral_locked)
                  ELSE mms[o]]
           /\ quotes' = [quotes EXCEPT ![o][i] = n]
    /\ last' = Note("update_quote", "Ok", i)
    /\ UNCHANGED <<nonMm, envVars, program, registry, mmTokens>>

\* cancel_quote: unlocks the quote's recorded collateral and closes the
\* quote account.
CancelQuote(o, i) ==
    /\ program = "mm"
    /\ mms[o].init
    /\ quotes[o][i].init
    /\ quotes[o][i].is_active
    /\ mms' = [mms EXCEPT ![o] =
                 [unlock_collateral(mms[o], quotes[o][i].collateral_locked)
                     EXCEPT !.active_quotes = SatSub(mms[o].active_quotes, 1)]]
    /\ registry' = [registry EXCEPT
                      !.active_quotes = SatSub(registry.active_quotes, 1)]
    /\ quotes' = [quotes EXCEPT ![o][i] = NoQuote]
    /\ last' = Note("cancel_quote", "Ok", i)
    /\ UNCHANGED <<nonMm, envVars, program, mmTokens>>

FillPrice(q, is_buy) == IF is_buy THEN q.ask_price ELSE q.bid_price

FillNotional(q, size, is_buy) == Notional(size, FillPrice(q, is_buy))

FillFee(q, size, is_buy) ==
    (FillNotional(q, size, is_buy) * registry.mm_fee) \div 10000

FillQuoteErr(o, i, size, is_buy) ==
    LET q == quotes[o][i]
    IN  IF ~registry.is_trading_enabled THEN "TradingDisabled"
        ELSE IF ~q.is_active THEN "QuoteNotActive"
        ELSE IF ~quote_is_valid(q, now) THEN "QuoteExpired"
        ELSE IF ~(size >= q.min_fill_size) THEN "FillSizeTooSmall"
        ELSE IF ~(size <= (IF is_buy THEN q.ask_remaining ELSE q.bid_remaining))
             THEN "FillSizeExceedsRemaining"
        ELSE IF ~is_buy /\ mmTokens[o] < SatSub(FillNotional(q, size, is_buy),
                                                FillFee(q, size, is_buy))
             THEN "TokenInsufficientFunds"
        ELSE "Ok"

\* The quote after a fill: the filled side's remaining size shrinks and the
\* quote turns inactive when both sides are used up.  collateral_locked is
\* not written.
FilledQuote(q, size, is_buy) ==
    LET bid_remaining == IF is_buy THEN q.bid_remaining
                         ELSE SatSub(q.bid_remaining, size)
        ask_remaining == IF is_buy THEN SatSub(q.ask_remaining, size)
                         ELSE q.ask_remaining
    IN  [q EXCEPT !.bid_remaining = bid_remaining,
                  !.ask_remaining = ask_remaining,
                  !.is_active = ~(bid_remaining = 0 /\ ask_remaining = 0)]

\* fill_quote: a taker buys from (is_buy) or sells to the market maker at the
\* quote's price; a buy pays notional + fee into the market maker's collateral
\* account, a sell pays notional - fee out of it.
FillQuote(o, i, size, is_buy) ==
    /\ program = "mm"
    /\ mms[o].init
    /\ quotes[o][i].init
    /\ mms[o].total_fills < MaxFills
    /\ last' = Note("fill_quote", FillQuoteErr(o, i, size, is_buy), i)
    /\ IF FillQuoteErr(o, i, size, is_buy) = "Ok"
       THEN LET q        == quotes[o][i]
                notional == FillNotional(q, size, is_buy)
                fee      == FillFee(q, size, is_buy)
                nq       == FilledQuote(q, size, is_buy)
                traded   == update_inventory(mms[o], size, FillPrice(q, is_buy),
                                             ~is_buy)
                paid     == [traded EXCEPT
                                !.collateral_deposited =
                                    IF is_buy
                                    THEN mms[o].collateral_deposited + notional
                                    ELSE SatSub(mms[o].collateral_deposited,
                                                notional),
                                !.total_volume = mms[o].total_volume + notional,
                                !.total_fills = mms[o].total_fills + 1,
                                !.total_fees_paid = mms[o].total_fees_paid + fee]
                collateral_freed ==
                    SatSub(nq.collateral_locked,
                           QuoteCollateral(nq.bid_remaining, nq.bid_price,
                                           nq.ask_remaining, nq.ask_price))
                unlocked == unlock_collateral(paid, collateral_freed)
            IN  /\ mmTokens' = [mmTokens EXCEPT ![o] =
                       IF is_buy THEN mmTokens[o] + notional + fee
                       ELSE mmTokens[o] - SatSub(notional, fee)]
                /\ quotes' = [quotes EXCEPT ![o][i] = nq]
                /\ mms' = [mms EXCEPT ![o] =
                       IF nq.is_active THEN unlocked
                       ELSE [unlocked EXCEPT
                                !.active_quotes = SatSub(unlocked.active_quotes, 1)]]
                /\ registry' = [registry EXCEPT
                       !.active_quotes = IF nq.is_active THEN registry.active_quotes
                                         ELSE SatSub(registry.active_quotes, 1),
                       !.total_volume = registry.total_volume + notional,
                       !.total_fees = registry.total_fees + fee]
       ELSE UNCHANGED <<mms, mmTokens, quotes, registry>>
    /\ UNCHANGED <<nonMm, envVars, program>>

-----------------------------------------------------------------------------
(* orderbook: records, parameters and instructions.                         *)

MaxOrders == 3

\* u64::MAX, the initial best_ask and lowest_price; it is only compared with
\* prices, and stands here as the largest integer of the model checker.
U64Max == 2147483647

Traders == {"u1"}

OrderIds == 1..Len(orders)

\* initialize_orderbook
InitBookState ==
    /\ orderbook = [best_bid |-> 0, best_ask |-> U64Max, total_bids |-> 0,
                    total_asks |-> 0, total_trigger_orders |-> 0,
                    sequence_number |-> 0]
    /\ orders = <<>>

\* Order::should_trigger
should_trigger(order, current_price) ==
    CASE order.trigger_condition = "None" -> TRUE
      [] order.trigger_condition = "PriceAbove" -> current_price >= order.trigger_price
      [] order.trigger_condition = "PriceBelow" -> current_price <= order.trigger_price

\* Order::update_trailing_stop
update_trailing_stop(order, current_price) ==
    IF order.order_type # "TrailingStop" THEN order
    ELSE IF order.side = "Ask"
    THEN IF current_price > order.highest_price
         THEN [order EXCEPT
                  !.highest_price = current_price,
                  !.trigger_price =
                      IF order.trailing_percent
                      THEN SatSub(current_price,
                                  (current_price * order.trailing_amount) \div 10000)
                      ELSE SatSub(current_price, order.trailing_amount)]
         ELSE order
    ELSE IF current_price < order.lowest_price \/ order.lowest_price = 0
         THEN [order EXCEPT
                  !.lowest_price = current_price,
                  !.trigger_price =
                      IF order.trailing_percent
                      THEN current_price
                           + (current_price * order.trailing_amount) \div 10000
                      ELSE current_price + order.trailing_amount]
         ELSE order

\* The time at which the expiring orders of the model expire.
OrderExpiry == 140

\* [side, order_type, price, size, expires_at, trigger_price,
\*  trigger_condition, trailing_amount, trailing_percent]
PlaceOrderParams ==
    {[side |-> "Bid", order_type |-> "Limit", price |-> 11, size |-> 2,
      expires_at |-> 0, trigger_price |-> 0, trigger_condition |-> "None",
      trailing_amount |-> 0, trailing_percent |-> FALSE],
     [side |-> "Ask", order_type |-> "Limit", price |-> 10, size |-> 1,
      expires_at |-> OrderExpiry, trigger_price |-> 0, trigger_condition |-> "None",
      trailing_amount |-> 0, trailing_percent |-> FALSE],
     [side |-> "Ask", order_type |-> "TrailingStop", price |-> 9, size |-> 1,
      expires_at |-> 0, trigger_price |-> 9, trigger_condition |-> "PriceBelow",
      trailing_amount |-> 1, trailing_percent |-> FALSE]}

\* [primary_*, secondary_*, size, expires_at]: a take-profit and a stop-loss
\* that close the same long position.
PlaceOcoParams ==
    {[primary_side |-> "Ask", primary_type |-> "TakeProfit", primary_price |-> 11,
      primary_trigger_price |-> 11, primary_trigger_condition |-> "PriceAbove",
      secondary_side |-> "Ask", secondary_type |-> "StopLoss",
      secondary_price |-> 9, secondary_trigger_price |-> 9,
      secondary_trigger_condition |-> "PriceBelow",
      size |-> 1, expires_at |-> 0]}

\* The current_price a keeper passes to trigger_order / update_trailing_stop.
KeeperPrices == {9, 11}

PlaceOrderErr(p) ==
    IF ~(p.size > 0) THEN "InvalidOrderSize"
    ELSE IF p.order_type \in {"Limit", "StopLimit"} /\ ~(p.price > 0)
         THEN "InvalidPrice"
    ELSE IF p.order_type \in {"StopLoss", "TakeProfit", "StopLimit", "TrailingStop"}
            /\ ~(p.trigger_price > 0 \/ p.order_type = "TrailingStop")
         THEN "InvalidTriggerPrice"
    ELSE "Ok"

\* place_order: a new Order account at the book's sequence number; the
\* aggregates of the book follow.
PlaceOrder(u, p) ==
    /\ program = "book"
    /\ Len(orders) < MaxOrders
    /\ PlaceOrderErr(p) = "Ok"
    /\ LET is_trigger_order == p.trigger_condition # "None"
       IN  /\ orders' = Append(orders,
                  [owner |-> u, side |-> p.side, order_type |-> p.order_type,
                   price |-> p.price, size |-> p.size, filled_size |-> 0,
                   status |-> "Open", expires_at |-> p.expires_at,
                   trigger_price |-> p.trigger_price,
                   trigger_condition |-> p.trigger_condition,
                   trailing_amount |-> p.trailing_amount,
                   trailing_percent |-> p.trailing_percent,
                   highest_price |-> 0, lowest_price |-> U64Max,
                   linked_order |-> 0, is_oco |-> FALSE])
           /\ orderbook' = [orderbook EXCEPT
                  !.sequence_number = orderbook.sequence_number + 1,
                  !.total_trigger_orders =
                      IF is_trigger_order THEN orderbook.total_trigger_orders + 1
                      ELSE orderbook.total_trigger_orders,
                  !.total_bids = IF p.side = "Bid" THEN orderbook.total_bids + 1
                                 ELSE orderbook.total_bids,
                  !.total_asks = IF p.side = "Ask" THEN orderbook.total_asks + 1
                                 ELSE orderbook.total_asks,
                  !.best_bid = IF p.side = "Bid" /\ ~is_trigger_order
                                  /\ p.price > orderbook.best_bid
                               THEN p.price ELSE orderbook.best_bid,
                  !.best_ask = IF p.side = "Ask" /\ ~is_trigger_order
                                  /\ p.price < orderbook.best_ask
                               THEN p.price ELSE orderbook.best_ask]
    /\ last' = Note("place_order", "Ok", Len(orders) + 1)
    /\ UNCHANGED <<nonBook, envVars, program>>

\* place_oco_order: two Order accounts that name each other as linked_order.
PlaceOcoOrder(u, p) ==
    /\ program = "book"
    /\ Len(orders) + 2 <= MaxOrders
    /\ p.size > 0
    /\ LET primary == Len(orders) + 1
           secondary == Len(orders) + 2
       IN  /\ orders' = orders \o
                  <<[owner |-> u, side |-> p.primary_side,
                     order_type |-> p.primary_type, price |-> p.primary_price,
                     size |-> p.size, filled_size |-> 0, status |-> "Open",
                     expires_at |-> p.expires_at,
                     trigger_price |-> p.primary_trigger_price,
                     trigger_condition |-> p.primary_trigger_condition,
                     trailing_amount |-> 0, trailing_percent |-> FALSE,
                     highest_price |-> 0, lowest_price |-> U64Max,
                     linked_order |-> secondary, is_oco |-> TRUE],
                    [owner |-> u, side |-> p.secondary_side,
                     order_type |-> p.secondary_type, price |-> p.secondary_price,
                     size |-> p.size, filled_size |-> 0, status |-> "Open",
                     expires_at |-> p.expires_at,
                     trigger_price |-> p.secondary_trigger_price,
                     trigger_condition |-> p.secondary_trigger_condition,
                     trailing_amount |-> 0, trailing_percent |-> FALSE,
                     highest_price |-> 0, lowest_price |-> U64Max,
                     linked_order |-> primary, is_oco |-> TRUE]>>
           /\ last' = Note("place_oco_order", "Ok", primary)
    /\ orderbook' = [orderbook EXCEPT
           !.sequence_number = orderbook.sequence_number + 2,
           !.total_trigger_orders = orderbook.total_trigger_orders + 2]
    /\ UNCHANGED <<nonBook, envVars, program>>

\* trigger_order, called by a keeper with the price it observed.
TriggerOrder(i, current_price) ==
    /\ program = "book"
    /\ orders[i].status = "Open"
    /\ should_trigger(orders[i], current_price)
    /\ orders' = [orders EXCEPT ![i].status = "Triggered"]
    /\ orderbook' = [orderbook EXCEPT
           !.total_trigger_orders = SatSub(orderbook.total_trigger_orders, 1)]
    /\ last' = Note("trigger_order", "Ok", i)
    /\ UNCHANGED <<nonBook, envVars, program>>

\* update_trailing_stop, called by a keeper with the price it observed.
UpdateTrailingStop(i, current_price) ==
    /\ program = "book"
    /\ orders[i].status = "Open"
    /\ orders[i].order_type = "TrailingStop"
    /\ orders' = [orders EXCEPT ![i] = update_trailing_stop(orders[i], current_price)]
    /\ last' = Note("update_trailing_stop", "Ok", i)
    /\ UNCHANGED <<nonBook, envVars, program, orderbook>>

IsResting(order) == order.status \in {"Open", "PartiallyFilled"}

\* cancel_order: cancels the one order it is given.
CancelOrder(u, i) ==
    /\ program = "book"
    /\ orders[i].owner = u
    /\ IsResting(orders[i])
    /\ orders' = [orders EXCEPT ![i].status = "Cancelled"]
    /\ orderbook' = [orderbook EXCEPT
           !.total_trigger_orders =
               IF orders[i].trigger_condition # "None"
               THEN SatSub(orderbook.total_trigger_orders, 1)
               ELSE orderbook.total_trigger_orders,
           !.total_bids = IF orders[i].side = "Bid"
                          THEN SatSub(orderbook.total_bids, 1)
                          ELSE orderbook.total_bids,
           !.total_asks = IF orders[i].side = "Ask"
                          THEN SatSub(orderbook.total_asks, 1)
                          ELSE orderbook.total_asks]
    /\ last' = Note("cancel_order", "Ok", i)
    /\ UNCHANGED <<nonBook, envVars, program>>

\* The step shared by cancel_oco_order and execute_oco_cancel: a resting
\* order is cancelled and taken off the trigger-order count.
CancelIfResting(os, ids) ==
    [i \in DOMAIN os |->
        IF i \in ids /\ IsResting(os[i]) THEN [os[i] EXCEPT !.status = "Cancelled"]
        ELSE os[i]]

\* cancel_oco_order: cancels both orders of a pair.
CancelOcoOrder(u, i, j) ==
    /\ program = "book"
    /\ i # j
    /\ orders[i].owner = u
    /\ orders[i].is_oco
    /\ orders[i].linked_order = j
    /\ orders' = CancelIfResting(orders, {i, j})
    /\ orderbook' = [orderbook EXCEPT
           !.total_trigger_orders =
               SatSub(SatSub(orderbook.total_trigger_orders,
                             IF IsResting(orders[i]) THEN 1 ELSE 0),
                      IF IsResting(orders[j]) THEN 1 ELSE 0)]
    /\ last' = Note("cancel_oco_order", "Ok", i)
    /\ UNCHANGED <<nonBook, envVars, program>>

\* execute_oco_cancel, called by a keeper once one leg is Filled or
\* Triggered: cancels the linked order.
ExecuteOcoCancel(i, j) ==
    /\ program = "book"
    /\ i # j
    /\ orders[i].is_oco
    /\ orders[i].linked_order = j
    /\ orders[i].status \in {"Filled", "Triggered"}
    /\ orders' = CancelIfResting(orders, {j})
    /\ orderbook' = [orderbook EXCEPT
           !.total_trigger_orders =
               IF IsResting(orders[j]) THEN SatSub(orderbook.total_trigger_orders, 1)
               ELSE orderbook.total_trigger_orders]
    /\ last' = Note("execute_oco_cancel", "Ok", i)
    /\ UNCHANGED <<nonBook, envVars, program>>

MatchableOrCancelled(order) ==
    order.status \in {"Open", "PartiallyFilled", "Triggered", "Cancelled"}

\* The statuses match_orders accepts.
Matchable(order) == order.status \in {"Open", "PartiallyFilled", "Triggered"}

MatchOrdersErr(b, a) ==
    IF ~(orders[b].price >= orders[a].price) THEN "PriceMismatch"
    ELSE IF ~Matchable(orders[b]) THEN "InvalidOrder"
    ELSE IF ~Matchable(orders[a]) THEN "InvalidOrder"
    ELSE "Ok"

\* The order after a fill of fill_size.
Filled(order, fill_size) ==
    [order EXCEPT !.filled_size = order.filled_size + fill_size,
                  !.status = IF order.filled_size + fill_size = order.size
                             THEN "Filled" ELSE "PartiallyFilled"]

\* match_orders: fills a bid and an ask against each other by the smaller
\* remaining size.
MatchOrders(b, a) ==
    /\ program = "book"
    /\ orders[b].side = "Bid"
    /\ orders[a].side = "Ask"
    /\ last' = Note("match_orders", MatchOrdersErr(b, a), b)
    /\ IF MatchOrdersErr(b, a) = "Ok"
       THEN LET fill_size == Min(orders[b].size - orders[b].filled_size,
                                 orders[a].size - orders[a].filled_size)
            IN  orders' = [orders EXCEPT ![b] = Filled(orders[b], fill_size),
                                         ![a] = Filled(orders[a], fill_size)]
       ELSE UNCHANGED orders
    /\ UNCHANGED <<nonBook, envVars, program, orderbook>>

-----------------------------------------------------------------------------
(* API oracle service: the background refresh (fetch_prices) and a          *)
(* concurrent is_trading_allowed call.  The service's tables sit behind     *)
(* separate RwLocks; a step is what a task does between two awaits.         *)

Commodities == {"OIL", "NATGAS"}

\* PYTH_FEEDS, TWELVE_DATA_SYMBOLS and the commodities add_simulated_prices
\* fills in, among the modelled commodities.
PythFeeds == {"OIL"}

TwelveDataSymbols == {"OIL", "NATGAS"}

SimulatedCommodities == {"NATGAS"}

\* MAX_STALENESS_SECS, MAX_DEVIATION_BPS, CACHE_VALIDITY_SECS
MaxStalenessSecs == 86400

MaxDeviationBps == 500

CacheValiditySecs == 172800

\* chrono::Utc::now().timestamp(): the service's clock runs on from
\* UnixOffset as the model's clock does from 0.
UnixOffset == 1700000000

UtcNow == UnixOffset + now

\* The price and timestamp of a PriceData; `some` tells an entry from a
\* missing one.
NoPriceData == [some |-> FALSE, price |-> 0, timestamp |-> 0]

PriceData(price, timestamp) ==
    [some |-> TRUE, price |-> price, timestamp |-> timestamp]

NoPriceTable == [c \in Commodities |-> NoPriceData]

NoPrices == [c \in Commodities |-> "None"]

\* The prices the two APIs answer with: a price, one 500 bps above it and
\* one 600 bps above it.
QuotePrices == {2000000, 2100000, 2120000}

\* The ages of the publish_time Pyth answers with.
QuoteAges == {0, MaxStalenessSecs, MaxStalenessSecs + 1}

\* The number of runs of the background task.
MaxRefreshes == 2

\* The prices add_simulated_prices draws for NATGAS: base * (1 + volatility)
\* with volatility in [-0.05, 0.05).
SimulatedPrices == {2375000, 2500000}

\* OracleService::new
InitOracleState ==
    /\ twelve_data_api_key \in BOOLEAN
    /\ oracleStatus = [pyth_healthy |-> FALSE, backup_healthy |-> FALSE,
                       circuit_breaker_active |-> FALSE]
    /\ oraclePrices = NoPrices
    /\ priceQuotes = NoPriceTable
    /\ oracleCache = {}
    /\ cacheQuotes = NoPriceTable
    /\ fetchTask = [pc |-> "idle", all_prices |-> NoPrices,
                    all_quotes |-> NoPriceTable,
                    pyth_healthy |-> FALSE, backup_healthy |-> FALSE,
                    pyth_prices |-> NoPriceTable, backup_prices |-> NoPriceTable,
                    before_prices |-> NoPrices, before_quotes |-> NoPriceTable,
                    refreshes |-> 0]
    /\ reader = [pc |-> "idle", commodity |-> "OIL", result |-> FALSE]
    /\ observed = [op |-> "none", commodity |-> "OIL",
                   prices |-> NoPrices, quotes |-> NoPriceTable]

\* The service as the on-chain programs' runs leave it: just constructed,
\* without a backup API key.
InitOracleIdle ==
    /\ InitOracleState
    /\ twelve_data_api_key = FALSE

\* A day passes on the service's clock.
ServiceTick ==
    /\ program = "oracle"
    /\ now = StartTime
    /\ now' = now + MaxStalenessSecs
    /\ last' = Note("tick", "Ok", 0)
    /\ UNCHANGED <<feed, program, perpsVars, ammVars, restVars>>

calculate_deviation_bps(new_price, old_price) ==
    IF old_price = 0 THEN 0
    ELSE LET diff == IF new_price > old_price THEN new_price - old_price
                     ELSE old_price - new_price
         IN  (diff * 10000) \div old_price

\* validate_price without its deviation check.
validate_price_staleness_only(c, price) ==
    UtcNow - price.timestamp <= MaxStalenessSecs

\* validate_price: the staleness check, then the deviation check against the
\* cached price of the commodity, if there is one.
validate_price(c, price) ==
    IF UtcNow - price.timestamp > MaxStalenessSecs THEN FALSE
    ELSE IF /\ cacheQuotes[c].some
            /\ calculate_deviation_bps(price.price, cacheQuotes[c].price)
                   > MaxDeviationBps
         THEN FALSE
         ELSE TRUE

is_cache_valid(cached, now_) == now_ - cached.timestamp < CacheValiditySecs

\* What fetch_pyth_prices can return: for each feed no price, or one of
\* QuotePrices published QuoteAges ago.
PythAnswers ==
    {f \in [Commodities ->
               {NoPriceData} \cup {PriceData(p, UtcNow - a) : p \in QuotePrices,
                                                      a \in QuoteAges}] :
        \A c \in Commodities \ PythFeeds : f[c] = NoPriceData}

\* What fetch_backup_prices can return: for each symbol no price, or one of
\* QuotePrices stamped with the time of the call.
BackupAnswers ==
    {f \in [Commodities ->
               {NoPriceData} \cup {PriceData(p, UtcNow) : p \in QuotePrices}] :
        \A c \in Commodities \ TwelveDataSymbols : f[c] = NoPriceData}

\* The source of each commodity's price after the fallback chain
\* Pyth -> backup API -> cache -> simulation; "None" when it has no price.
FallbackChain(pyth_valid, backup_valid, cache_valid) ==
    [c \in Commodities |->
        IF c \in pyth_valid THEN "Pyth"
        ELSE IF c \in backup_valid THEN "TwelveData"
        ELSE IF c \in cache_valid THEN "Cached"
        ELSE IF c \in SimulatedCommodities THEN "Simulated"
        ELSE "None"]

\* all_prices.is_empty() || all sources are Cached or Simulated
CircuitBreaker(all_prices) ==
    \A c \in Commodities : all_prices[c] \in {"None", "Cached", "Simulated"}

\* fetch_prices up to the status update, given what the outside world
\* answers: the fetches, their validation and the fallback chain build
\* all_prices, and the fresh prices enter the cache.  before_prices and
\* before_quotes keep the table the refresh found, for the properties;
\* refreshes counts the runs of the background task up to MaxRefreshes.
FetchGatherWith(pyth_healthy, pyth_prices, backup_prices, simulated) ==
    /\ program = "oracle"
    /\ fetchTask.pc = "idle"
    /\ LET pyth_valid == {c \in Commodities :
                              /\ pyth_prices[c].some
                              /\ validate_price(c, pyth_prices[c])}
           missing == Commodities \ pyth_valid
           backup_healthy == missing # {} /\ twelve_data_api_key
           backup_valid == {c \in missing :
                               /\ backup_prices[c].some
                               /\ validate_price(c, backup_prices[c])}
           still_missing == missing \ backup_valid
           cache_valid == {c \in still_missing :
                              /\ c \in oracleCache
                              /\ is_cache_valid(cacheQuotes[c], UtcNow)}
           all_prices == FallbackChain(pyth_valid, backup_valid, cache_valid)
           all_quotes ==
               [c \in Commodities |->
                   CASE all_prices[c] = "Pyth" -> pyth_prices[c]
                     [] all_prices[c] = "TwelveData" -> backup_prices[c]
                     [] all_prices[c] = "Cached" -> cacheQuotes[c]
                     [] all_prices[c] = "Simulated" -> PriceData(simulated, UtcNow)
                     [] OTHER -> NoPriceData]
           fresh == {c \in Commodities :
                        all_prices[c] \in {"Pyth", "TwelveData"}}
       IN  /\ ~pyth_healthy => pyth_prices = NoPriceTable
           /\ \A c \in Commodities : backup_prices[c].some => c \in missing
           /\ ~backup_healthy => backup_prices = NoPriceTable
           /\ oracleCache' = oracleCache \cup fresh
           /\ cacheQuotes' = [c \in Commodities |->
                                 IF c \in fresh THEN all_quotes[c]
                                 ELSE cacheQuotes[c]]
           /\ fetchTask' = [pc |-> "status", all_prices |-> all_prices,
                            all_quotes |-> all_quotes,
                            pyth_healthy |-> pyth_healthy,
                            backup_healthy |-> backup_healthy,
                            pyth_prices |-> pyth_prices,
                            backup_prices |-> backup_prices,
                            before_prices |-> oraclePrices,
                            before_quotes |-> priceQuotes,
                            refreshes |-> Min(fetchTask.refreshes + 1,
                                              MaxRefreshes)]
    /\ last' = Note("fetch_prices", "Ok", 0)
    /\ UNCHANGED <<nonOracle, envVars, program, twelve_data_api_key,
                   oracleStatus, oraclePrices, priceQuotes, reader, observed>>

\* A run of the background task: which fetches succeed and what they answer
\* is up to the outside world.
FetchGather ==
    /\ fetchTask.refreshes < MaxRefreshes
    /\ \E pyth_healthy \in BOOLEAN,
          pyth_prices \in PythAnswers,
          backup_prices \in BackupAnswers,
          simulated \in SimulatedPrices :
         FetchGatherWith(pyth_healthy, pyth_prices, backup_prices, simulated)

\* A reader that lets go of the status lock as soon as it has read the flag.
ReaderHoldsStatusUntilFlagRead(r) == FALSE

\* is_trading_allowed keeps its read guard on `status` until it returns.
ReaderHoldsStatus(r) == r.pc = "holding"

\* fetch_prices: status.write() waits for the readers of `status`, then the
\* new health flags and circuit breaker are stored.
FetchWriteStatus ==
    /\ program = "oracle"
    /\ fetchTask.pc = "status"
    /\ ~ReaderHoldsStatus(reader)
    /\ oracleStatus' = [pyth_healthy |-> fetchTask.pyth_healthy,
                        backup_healthy |-> fetchTask.backup_healthy,
                        circuit_breaker_active |->
                            CircuitBreaker(fetchTask.all_prices)]
    /\ fetchTask' = [fetchTask EXCEPT !.pc = "prices",
                                      !.pyth_prices = NoPriceTable,
                                      !.backup_prices = NoPriceTable]
    /\ last' = Note("fetch_prices", "Ok", 1)
    /\ UNCHANGED <<nonOracle, envVars, program, twelve_data_api_key,
                   oraclePrices, oracleCache, reader, priceQuotes,
                   cacheQuotes, observed>>

\* A store that takes the lock for one entry at a time: each step stores one
\* entry of all_prices that the table does not have yet.
FetchWritePricesEntryByEntry ==
    /\ program = "oracle"
    /\ fetchTask.pc = "prices"
    /\ \E c \in Commodities :
         /\ oraclePrices' = [oraclePrices EXCEPT ![c] = fetchTask.all_prices[c]]
         /\ priceQuotes' = [priceQuotes EXCEPT ![c] = fetchTask.all_quotes[c]]
    /\ fetchTask' =
           [fetchTask EXCEPT
               !.pc = IF /\ oraclePrices' = fetchTask.all_prices
                         /\ priceQuotes' = fetchTask.all_quotes
                      THEN "idle" ELSE "prices"]
    /\ last' = Note("fetch_prices", "Ok", 2)
    /\ UNCHANGED <<nonOracle, envVars, program, twelve_data_api_key,
                   oracleStatus, oracleCache, reader, cacheQuotes, observed>>

\* fetch_prices: *prices = all_prices, under the write lock of `prices`
FetchWritePrices ==
    /\ program = "oracle"
    /\ fetchTask.pc = "prices"
    /\ oraclePrices' = fetchTask.all_prices
    /\ priceQuotes' = fetchTask.all_quotes
    /\ fetchTask' = [fetchTask EXCEPT !.pc = "idle",
                                      !.before_prices = fetchTask.all_prices,
                                      !.before_quotes = fetchTask.all_quotes]
    /\ last' = Note("fetch_prices", "Ok", 2)
    /\ UNCHANGED <<nonOracle, envVars, program, twelve_data_api_key,
                   oracleStatus, oracleCache, reader, cacheQuotes, observed>>

\* get_price: prices.read() and a clone of the commodity's entry
GetPrice(c) ==
    /\ program = "oracle"
    /\ observed' = [op |-> "get_price", commodity |-> c,
                    prices |-> [d \in Commodities |->
                                   IF d = c THEN oraclePrices[d] ELSE "None"],
                    quotes |-> [d \in Commodities |->
                                   IF d = c THEN priceQuotes[d] ELSE NoPriceData]]
    /\ last' = Note("get_price", "Ok", 0)
    /\ UNCHANGED <<nonOracle, envVars, program, twelve_data_api_key,
                   oracleStatus, oraclePrices, oracleCache, fetchTask, reader,
                   priceQuotes, cacheQuotes>>

\* get_all_prices: prices.read() and a clone of the table
GetAllPrices ==
    /\ program = "oracle"
    /\ observed' = [op |-> "get_all_prices", commodity |-> "OIL",
                    prices |-> oraclePrices, quotes |-> priceQuotes]
    /\ last' = Note("get_all_prices", "Ok", 0)
    /\ UNCHANGED <<nonOracle, envVars, program, twelve_data_api_key,
                   oracleStatus, oraclePrices, oracleCache, fetchTask, reader,
                   priceQuotes, cacheQuotes>>

\* is_trading_allowed: status.read(); an active circuit breaker returns false
\* at once, otherwise the call goes on to the price table with the guard held.
TradingAllowedReadStatus(c) ==
    /\ program = "oracle"
    /\ reader.pc = "idle"
    /\ IF oracleStatus.circuit_breaker_active
       THEN /\ reader' = [pc |-> "idle", commodity |-> c, result |-> FALSE]
            /\ last' = Note("is_trading_allowed", "Ok", 0)
       ELSE /\ reader' = [pc |-> "holding", commodity |-> c, result |-> FALSE]
            /\ last' = Note("is_trading_allowed_status", "Ok", 0)
    /\ UNCHANGED <<nonOracle, envVars, program, twelve_data_api_key,
                   oracleStatus, oraclePrices, oracleCache, fetchTask,
                   priceQuotes, cacheQuotes, observed>>

\* Only real oracle data allows trading: a stored price that is not Simulated.
PriceAllowsTrading(source) == source # "None" /\ source # "Simulated"

\* is_trading_allowed: prices.read() and the answer.
TradingAllowedReadPrices ==
    /\ program = "oracle"
    /\ reader.pc = "holding"
    /\ reader' = [reader EXCEPT
           !.pc = "idle",
           !.result = PriceAllowsTrading(oraclePrices[reader.commodity])]
    /\ last' = Note("is_trading_allowed", "Ok", 1)
    /\ UNCHANGED <<nonOracle, envVars, program, twelve_data_api_key,
                   oracleStatus, oraclePrices, oracleCache, fetchTask,
                   priceQuotes, cacheQuotes, observed>>

-----------------------------------------------------------------------------
(* The background task running on after a jump of the primary price.  Pyth  *)
(* answers every refresh with the price of `feed`, freshly stamped.         *)

\* The days the service's clock runs on for.
MaxServiceDays == 3

\* The level the primary price jumps to.
JumpPrice == 2120000

PrimaryAnswer ==
    [c \in Commodities |->
        IF c \in PythFeeds THEN PriceData(feed.price, UtcNow) ELSE NoPriceData]

\* A run of the background task in which Pyth answers with the feed's price.
RefreshFromFeed ==
    \E backup_prices \in BackupAnswers, simulated \in SimulatedPrices :
        FetchGatherWith(TRUE, PrimaryAnswer, backup_prices, simulated)

\* The primary price moves more than MaxDeviationBps away from the cached
\* price of its commodity, and stays there.
PriceJump ==
    /\ program = "oracle"
    /\ feed.price # JumpPrice
    /\ \A c \in PythFeeds :
         /\ cacheQuotes[c].some
         /\ calculate_deviation_bps(JumpPrice, cacheQuotes[c].price)
                > MaxDeviationBps
    /\ feed' = [feed EXCEPT !.price = JumpPrice]
    /\ last' = Note("publish", "Ok", 0)
    /\ UNCHANGED <<now, program, perpsVars, ammVars, restVars>>

\* A day passes on the service's clock, MaxServiceDays times.
ServiceDay ==
    /\ program = "oracle"
    /\ now < StartTime + MaxServiceDays * MaxStalenessSecs
    /\ now' = now + MaxStalenessSecs
    /\ last' = Note("tick", "Ok", 0)
    /\ UNCHANGED <<feed, program, perpsVars, ammVars, restVars>>

-----------------------------------------------------------------------------
(* The background task running any number of times beside a caller of       *)
(* is_trading_allowed, with both APIs answering one price.                  *)

SteadyPrice == 2000000

SteadySimulated == 2500000

SteadyAges == {0, MaxStalenessSecs}

\* The answers of the two APIs at the one price.
SteadyPythAnswers ==
    {f \in PythAnswers :
        \A c \in Commodities :
            f[c].some => /\ f[c].price = SteadyPrice
                         /\ UtcNow - f[c].timestamp \in SteadyAges}

SteadyBackupAnswers ==
    {f \in BackupAnswers :
        \A c \in Commodities : f[c].some => f[c].price = SteadyPrice}

\* A run of the background task, one of any number.
RefreshSteady ==
    \E pyth_healthy \in BOOLEAN,
       pyth_prices \in SteadyPythAnswers,
       backup_prices \in SteadyBackupAnswers :
        FetchGatherWith(pyth_healthy, pyth_prices, backup_prices,
                        SteadySimulated)

\* What is_trading_allowed(c) returns on a status and a price table.
TradingAllowedOn(circuit_breaker_active, prices, c) ==
    IF circuit_breaker_active THEN FALSE ELSE PriceAllowsTrading(prices[c])

-----------------------------------------------------------------------------
(* perps-core at full width.  The ledger above keeps its amounts within    *)
(* 32-bit integers.  Here close_position is carried out on u64 / i64        *)
(* fields with their u128 / i128 intermediates, as numbers of 16 limbs to   *)
(* the base 256 (least significant limb first), so that a cast keeps the    *)
(* bits the program keeps.                                                  *)

WideLimbs == 16

LimbBase == 256

\* The wide form of a natural number below 2^31.
Wide(n) ==
    <<n % LimbBase, (n \div LimbBase) % LimbBase,
      (n \div (LimbBase * LimbBase)) % LimbBase,
      n \div (LimbBase * LimbBase * LimbBase)>>
    \o [k \in 1..(WideLimbs - 4) |-> 0]

\* Limbs k.. of the number with the unnormalised limbs raw and a carry in;
\* a carry out of the last limb is dropped.
RECURSIVE Carried(_, _, _)
Carried(raw, k, carry) ==
    IF k > WideLimbs THEN <<>>
    ELSE LET t == raw[k] + carry
         IN  <<t % LimbBase>> \o Carried(raw, k + 1, t \div LimbBase)

\* The sequence of the limbs given by a function on 1..WideLimbs.
Limbs(f) == <<>> \o f

\* The operations below are defined on numbers of WideLimbs limbs.
IsWide(a) == Len(a) = WideLimbs

WAdd(a, b) ==
    CASE IsWide(a) /\ IsWide(b) ->
        Carried([k \in 1..WideLimbs |-> a[k] + b[k]], 1, 0)

\* a - b for a >= b
WSub(a, b) ==
    CASE IsWide(a) /\ IsWide(b) ->
        Carried([k \in 1..WideLimbs |-> a[k] - b[k]], 1, 0)

\* The sum of a[i] * b[k + 1 - i] over i in lo..hi
RECURSIVE LimbProducts(_, _, _, _, _)
LimbProducts(a, b, k, lo, hi) ==
    IF lo > hi THEN 0
    ELSE IF lo = hi THEN a[lo] * b[k + 1 - lo]
    ELSE LET mid == (lo + hi) \div 2
         IN  LimbProducts(a, b, k, lo, mid) + LimbProducts(a, b, k, mid + 1, hi)

\* a * b for a, b < 2^64: the u128 product is exact.
WMul(a, b) ==
    CASE IsWide(a) /\ IsWide(b) ->
        Carried([k \in 1..WideLimbs |-> LimbProducts(a, b, k, 1, k)], 1, 0)

\* The number made of the limbs k.. of a, modulo d.
RECURSIVE WRem(_, _, _)
WRem(a, d, k) ==
    IF k > WideLimbs THEN 0
    ELSE (WRem(a, d, k + 1) * LimbBase + a[k]) % d

\* a / d for a divisor 0 < d <= 1_000_000
WDiv(a, d) ==
    CASE IsWide(a) ->
        Limbs([k \in 1..WideLimbs |->
                  (WRem(a, d, k + 1) * LimbBase + a[k]) \div d])

RECURSIVE WLessFrom(_, _, _)
WLessFrom(a, b, k) ==
    IF k = 0 THEN FALSE
    ELSE IF a[k] # b[k] THEN a[k] < b[k]
    ELSE WLessFrom(a, b, k - 1)

WLess(a, b) == CASE IsWide(a) /\ IsWide(b) -> WLessFrom(a, b, WideLimbs)

WLeq(a, b) == ~WLess(b, a)

\* 2^63 and 2^64
Two63 == Limbs([k \in 1..WideLimbs |-> IF k = 8 THEN 128 ELSE 0])

Two64 == Limbs([k \in 1..WideLimbs |-> IF k = 9 THEN 1 ELSE 0])

\* `as u64` on a u128: the low 64 bits.
AsU64(a) ==
    CASE IsWide(a) -> Limbs([k \in 1..WideLimbs |-> IF k <= 8 THEN a[k] ELSE 0])

FitsU64(a) == a = AsU64(a)

\* A signed number: sign and magnitude, zero being positive.
Signed(neg, mag) == [neg |-> neg /\ mag # Wide(0), mag |-> mag]

SAdd(x, y) ==
    IF x.neg = y.neg THEN Signed(x.neg, WAdd(x.mag, y.mag))
    ELSE IF WLess(x.mag, y.mag) THEN Signed(y.neg, WSub(y.mag, x.mag))
    ELSE Signed(x.neg, WSub(x.mag, y.mag))

SNeg(x) == Signed(~x.neg, x.mag)

SMul(x, y) == Signed(x.neg # y.neg, WMul(x.mag, y.mag))

\* Rust's `/` by a positive constant: truncation toward zero.
SDiv(x, d) == Signed(x.neg, WDiv(x.mag, d))

\* -2^63 <= x < 2^63
FitsI64(x) == IF x.neg THEN WLeq(x.mag, Two63) ELSE WLess(x.mag, Two63)

\* `as i64` on an i128 or a u64: the low 64 bits, read in two's complement.
AsI64(x) ==
    LET low  == AsU64(x.mag)
        bits == IF x.neg /\ low # Wide(0) THEN WSub(Two64, low) ELSE low
    IN  IF WLess(bits, Two63) THEN Signed(FALSE, bits)
        ELSE Signed(TRUE, WSub(Two64, bits))

\* The value of a wide number below 2^31, and of a signed one.
Narrow(a) ==
    a[1] + LimbBase * (a[2] + LimbBase * (a[3] + LimbBase * a[4]))

NarrowSigned(x) == IF x.neg THEN -Narrow(x.mag) ELSE Narrow(x.mag)

\* Position::notional_value at full width: the u128 product of two u64 never
\* overflows, so checked_mul and checked_div always give Some, and `as u64`
\* keeps the low 64 bits of the quotient.
notional_value_u64(p) == AsU64(WDiv(WMul(p.size, p.entry_price), 1000000))

\* size * price_diff / 1_000_000 on i128, before the cast.
PnlI128(p, current_price) ==
    LET entry      == Signed(FALSE, p.entry_price)
        current    == Signed(FALSE, current_price)
        price_diff == IF p.side = "Long" THEN SAdd(current, SNeg(entry))
                      ELSE SAdd(entry, SNeg(current))
    IN  SDiv(SMul(Signed(FALSE, p.size), price_diff), 1000000)

\* Position::unrealized_pnl at full width: the quotient `as i64`.
unrealized_pnl_i64(p, current_price) == AsI64(PnlI128(p, current_price))

\* funding_diff and size as i64 * funding_diff, each before the i64
\* operation's overflow is looked at.
FundingDiff64(c) == SAdd(c.funding_rate, SNeg(c.position.last_funding_payment))

FundingProduct64(c, funding_diff) ==
    SMul(AsI64(Signed(FALSE, c.position.size)), AsI64(funding_diff))

\* The funding payment of the position's side.
FundingPayment64(c, product) ==
    LET q == SDiv(AsI64(product), 1000000)
    IN  IF c.position.side = "Long" THEN SNeg(q) ELSE q

\* A faulty fee: taker_fee taken as thousandths.
CloseFeeThousandths(notional, taker_fee) ==
    AsU64(WDiv(WMul(notional, Wide(taker_fee)), 1000))

\* (notional as u128 * taker_fee as u128 / 10000) as u64
CloseFee64(notional, taker_fee) ==
    AsU64(WDiv(WMul(notional, Wide(taker_fee)), 10000))

\* pnl + funding_payment - fee as i64: the exact result of the subtraction
\* on the i64 value of the sum.
TotalPnl64(sum, fee) == SAdd(AsI64(sum), SNeg(AsI64(Signed(FALSE, fee))))

\* collateral as i64 + total_pnl, exactly, on the i64 value of total_pnl.
EquityAtClose64(collateral, total_pnl) ==
    SAdd(AsI64(Signed(FALSE, collateral)), AsI64(total_pnl))

\* An i64 `+`, `-` or `*` of the handler leaves i64: a panic in a build with
\* overflow checks, a wrapped value in a build without.  exact holds the
\* exact results of the handler's five i64 operations.
NativeOverflow64(exact) == \E k \in 1..Len(exact) : ~FitsI64(exact[k])

\* (collateral as i64 + total_pnl).max(0) as u64
Settlement64(equity) ==
    LET e == AsI64(equity)
    IN  IF e.neg THEN Wide(0) ELSE e.mag

CloseErr64(c, exact, settlement) ==
    IF c.position.status # "Open" THEN "PositionAlreadyClosed"
    ELSE IF c.overflow_checks /\ NativeOverflow64(exact) THEN "Panic"
    ELSE IF WLess(c.vault_tokens, settlement) THEN "TokenInsufficientFunds"
    ELSE "Ok"

\* u64::saturating_add
SatAdd64(a, b) ==
    IF FitsU64(WAdd(a, b)) THEN WAdd(a, b) ELSE WSub(Two64, Wide(1))

\* close_position by the owner under a fresh oracle price, at full width.
\* c holds the position, the market's fee, funding rate, insurance fund and
\* open interest of the position's side, the vault's tokens and the price.
\* The handler's locals are computed in the order of its let statements.
ClosePosition64 ==
    LET c == closing
        p == closing.position
    IN
    /\ program = "perps"
    /\ c.pc = "submitted"
    /\ \E pnl \in {unrealized_pnl_i64(p, c.oracle_price)},
          funding_diff \in {FundingDiff64(c)},
          notional \in {notional_value_u64(p)} :
       \E product \in {FundingProduct64(c, funding_diff)},
          fee \in {CloseFee64(notional, c.taker_fee)} :
       \E funding_payment \in {FundingPayment64(c, product)} :
       \E sum \in {SAdd(pnl, funding_payment)} :
       \E total_pnl \in {TotalPnl64(sum, fee)} :
       \E equity \in {EquityAtClose64(p.collateral, total_pnl)} :
       \E settlement \in {Settlement64(equity)} :
       \E err \in {CloseErr64(c, <<funding_diff, product, sum, total_pnl,
                                   equity>>, settlement)} :
          /\ last' = Note("close_position", err, 0)
          /\ IF err = "Ok"
             THEN closing' =
                     [c EXCEPT
                         !.pc = "done",
                         !.open_interest =
                             IF WLess(@, p.size) THEN Wide(0)
                             ELSE WSub(@, p.size),
                         !.insurance_fund = SatAdd64(@, fee),
                         !.position.status = "Closed",
                         !.position.realized_pnl = AsI64(total_pnl),
                         !.vault_tokens = WSub(@, settlement)]
             ELSE closing' = [c EXCEPT !.pc = "done"]
    /\ UNCHANGED <<envVars, program, perpsVars, ammVars, mmVars, bookVars,
                   oracleVars, referralVars, keeper>>

\* The 64-bit position of a close: opened at entry_price with the funding
\* snapshot 0.
Position64(side, size, collateral, entry_price) ==
    [side |-> side, size |-> size, collateral |-> collateral,
     entry_price |-> entry_price, realized_pnl |-> Signed(FALSE, Wide(0)),
     last_funding_payment |-> Signed(FALSE, Wide(0)), status |-> "Open"]

\* A close_position about to run on position p at the price oracle_price, in
\* a market with the given taker fee and cumulative funding rate whose vault
\* holds 10^19 tokens.
Closing(p, oracle_price, taker_fee, funding_rate, overflow_checks) ==
    [pc |-> "submitted", position |-> p, oracle_price |-> oracle_price,
     taker_fee |-> taker_fee, funding_rate |-> Signed(FALSE, Wide(funding_rate)),
     insurance_fund |-> Wide(0), open_interest |-> p.size,
     vault_tokens |-> WMul(Wide(1000000000), WMul(Wide(1000000000), Wide(10))),
     overflow_checks |-> overflow_checks]

\* No full-width call is under way.
InitClosingIdle == closing = [pc |-> "none"]

\* No keeper process runs.
InitKeeperIdle == keeper = [pc |-> "none"]

-----------------------------------------------------------------------------
(* prop-amm at full width.  open_position and close_position of the vault    *)
(* on 64-bit amounts; the basis-point parameters are u32 and stay plain.     *)

\* One bit of a long division by d: the remainder so far doubled plus the
\* bit, and the quotient so far doubled plus whether d goes into it.
BitStep(s, bit, d) ==
    LET t == 2 * s.r + bit
    IN  IF t >= d THEN [r |-> t - d, q |-> 2 * s.q + 1]
        ELSE [r |-> t, q |-> 2 * s.q]

\* The eight bits of one limb, from the top, after the remainder r; each
\* step is taken before the next.
LimbStep(r, limb, d) ==
    LET s1 == BitStep([r |-> r, q |-> 0], (limb \div 128) % 2, d)
        s2 == BitStep(s1, (limb \div 64) % 2, d)
        s3 == BitStep(s2, (limb \div 32) % 2, d)
        s4 == BitStep(s3, (limb \div 16) % 2, d)
        s5 == BitStep(s4, (limb \div 8) % 2, d)
        s6 == BitStep(s5, (limb \div 4) % 2, d)
        s7 == BitStep(s6, (limb \div 2) % 2, d)
    IN  CASE s1.q >= 0 -> CASE s2.q >= 0 -> CASE s3.q >= 0 ->
        CASE s4.q >= 0 -> CASE s5.q >= 0 -> CASE s6.q >= 0 ->
        CASE s7.q >= 0 -> BitStep(s7, limb % 2, d)

\* The number made of the limbs k.. of a, modulo d.
RECURSIVE WRemBits(_, _, _)
WRemBits(a, d, k) ==
    IF k > WideLimbs THEN 0
    ELSE LET r == WRemBits(a, d, k + 1)
         IN  CASE r >= 0 -> LimbStep(r, a[k], d).r

\* a / d for a divisor 0 < d <= 2^30
WDivBits(a, d) ==
    CASE IsWide(a) ->
        Limbs([k \in 1..WideLimbs |->
                  LET r == WRemBits(a, d, k + 1)
                  IN  CASE r >= 0 -> LimbStep(r, a[k], d).q])

\* (self.net_exposure.abs() as u64 * 10000) / self.max_exposure, for a
\* max_exposure of at most 2^30 and a ratio below 2^31
skew_ratio_u64(v) ==
    IF v.max_exposure > 0
    THEN Narrow(WDivBits(WMul(v.net_exposure.mag, Wide(10000)),
                         v.max_exposure))
    ELSE 0

\* LpVault::calculate_spread on the 64-bit vault v.
calculate_spread64(v, is_long) ==
    LET skew_ratio   == skew_ratio_u64(v)
        skew_spread  == (skew_ratio * v.max_skew_spread) \div 10000
        total_spread == v.base_spread + skew_spread
        exposure_reducing ==
            \/ is_long /\ v.net_exposure.neg
            \/ ~is_long /\ ~v.net_exposure.neg /\ v.net_exposure.mag # Wide(0)
    IN  CASE skew_ratio >= 0 ->
            IF exposure_reducing THEN total_spread \div 2 ELSE total_spread

\* oracle_price * spread as u64 / 10000
SpreadAmount64(oracle_price, spread) ==
    CASE spread >= 0 -> WDiv(WMul(oracle_price, Wide(spread)), 10000)

\* LpVault::calculate_entry_price
calculate_entry_price64(v, oracle_price, is_long) ==
    LET amount == SpreadAmount64(oracle_price, calculate_spread64(v, is_long))
    IN  CASE IsWide(amount) ->
            IF is_long THEN WAdd(oracle_price, amount)
            ELSE WSub(oracle_price, amount)

calculate_exit_price_same_side64(v, oracle_price, is_long) ==
    LET amount == SpreadAmount64(oracle_price, calculate_spread64(v, is_long))
    IN  CASE IsWide(amount) ->
            IF is_long THEN WSub(oracle_price, amount)
            ELSE WAdd(oracle_price, amount)

\* LpVault::calculate_exit_price: the spread of the opposite side.
calculate_exit_price64(v, oracle_price, is_long) ==
    LET amount == SpreadAmount64(oracle_price, calculate_spread64(v, ~is_long))
    IN  CASE IsWide(amount) ->
            IF is_long THEN WSub(oracle_price, amount)
            ELSE WAdd(oracle_price, amount)

\* LpVault::add_position
add_position64(v, size, is_long) ==
    IF is_long
    THEN [v EXCEPT !.net_exposure = SAdd(@, Signed(FALSE, size)),
                   !.total_long_size = WAdd(@, size)]
    ELSE [v EXCEPT !.net_exposure = SAdd(@, Signed(TRUE, size)),
                   !.total_short_size = WAdd(@, size)]

\* LpVault::remove_position: the totals saturate at zero.
remove_position64(v, size, is_long) ==
    IF is_long
    THEN [v EXCEPT !.net_exposure = SAdd(@, Signed(TRUE, size)),
                   !.total_long_size = IF WLess(@, size) THEN Wide(0)
                                       ELSE WSub(@, size)]
    ELSE [v EXCEPT !.net_exposure = SAdd(@, Signed(FALSE, size)),
                   !.total_short_size = IF WLess(@, size) THEN Wide(0)
                                        ELSE WSub(@, size)]

\* LpVault::settle_pnl: the vault takes the opposite of the trader's pnl,
\* a loss saturating at zero, and the LP share of the fee.
settle_pnl64(v, trader_pnl, fee) ==
    LET after_pnl ==
            IF trader_pnl.neg THEN WAdd(v.total_assets, trader_pnl.mag)
            ELSE IF WLess(v.total_assets, trader_pnl.mag) THEN Wide(0)
            ELSE WSub(v.total_assets, trader_pnl.mag)
        lp_fee == WDiv(WMul(fee, Wide(v.lp_fee_share)), 10000)
    IN  CASE IsWide(after_pnl) /\ IsWide(lp_fee) ->
            [v EXCEPT !.total_assets = WAdd(after_pnl, lp_fee),
                      !.pending_fees = WAdd(@, lp_fee)]

\* ((size as i128 * price_diff) / 1_000_000) as i64 of close_position
AmmPnl64(t, exit_price) ==
    LET exit       == Signed(FALSE, exit_price)
        entry      == Signed(FALSE, t.entry_price)
        price_diff == IF t.is_long THEN SAdd(exit, SNeg(entry))
                      ELSE SAdd(entry, SNeg(exit))
    IN  AsI64(SDiv(SMul(Signed(FALSE, t.size), price_diff), 1000000))

\* (size as u128 * exit_price as u128 / 1_000_000) as u64
AmmNotional64(t, price) == AsU64(WDiv(WMul(t.size, price), 1000000))

\* (notional * trading_fee as u64) / 10000
AmmFee64(v, t, exit_price) ==
    WDiv(WMul(AmmNotional64(t, exit_price), Wide(v.trading_fee)), 10000)

\* pnl minus fee for a winner, saturating at zero; nothing for a loser.
AmmSettlement64(pnl, fee) ==
    IF pnl.neg \/ WLess(pnl.mag, fee) THEN Wide(0) ELSE WSub(pnl.mag, fee)

\* The error close_position ends with, "Ok" if none: the vault is active
\* and the oracle price fresh by construction of the call.
AmmCloseErr64(c, exit_price, settlement) ==
    IF c.params.is_long /\ WLess(exit_price, c.params.min_price)
        THEN "InvalidParameters"
    ELSE IF ~c.params.is_long /\ WLess(c.params.max_price, exit_price)
        THEN "InvalidParameters"
    ELSE IF WLess(c.vault_tokens, settlement) THEN "TokenInsufficientFunds"
    ELSE "Ok"

\* close_position of prop-amm under a fresh oracle price, at full width.
\* c holds the vault, the caller's parameters, the vault's tokens and the
\* price.  The handler's locals are computed in the order of its let
\* statements.
AmmClosePosition64 ==
    LET c == closing
        v == closing.vault
        t == closing.params
    IN  /\ program = "amm"
        /\ c.pc = "submitted"
        /\ \E exit_price \in {calculate_exit_price64(v, c.oracle_price, t.is_long)} :
           \E pnl \in {AmmPnl64(t, exit_price)},
              fee \in {AmmFee64(v, t, exit_price)} :
           \E settlement \in {AmmSettlement64(pnl, fee)} :
           \E err \in {AmmCloseErr64(c, exit_price, settlement)} :
              /\ last' = Note("close_position", err, 0)
              /\ IF err = "Ok"
                 THEN closing' =
                        [c EXCEPT !.pc = "done",
                                  !.vault = settle_pnl64(
                                      remove_position64(v, t.size, t.is_long),
                                      pnl, fee),
                                  !.vault_tokens = WSub(@, settlement),
                                  !.exit_price = exit_price,
                                  !.pnl = pnl,
                                  !.fee = fee,
                                  !.settlement = settlement]
                 ELSE closing' = [c EXCEPT !.pc = "done"]
        /\ UNCHANGED <<envVars, program, perpsVars, ammVars, mmVars, bookVars,
                       oracleVars, referralVars, keeper>>

\* The 64-bit vault with the given limits and spreads holding total_assets,
\* with the net exposure of one earlier trade of the given size (positive:
\* long, negative: short, zero: none).
Vault64(max_exposure, base_spread, max_skew_spread, total_assets, earlier) ==
    [max_exposure |-> max_exposure, base_spread |-> base_spread,
     max_skew_spread |-> max_skew_spread, trading_fee |-> 5,
     lp_fee_share |-> 7000, total_assets |-> Wide(total_assets),
     pending_fees |-> Wide(0),
     net_exposure |-> Signed(earlier < 0, Wide(Abs(earlier))),
     total_long_size |-> Wide(IF earlier > 0 THEN earlier ELSE 0),
     total_short_size |-> Wide(IF earlier < 0 THEN -earlier ELSE 0)]

\* A close_position about to run at the price close_price on the trade that
\* open_position wrote into the vault v: entry_price is the price
\* open_position returned, and the caller sets no slippage limit.
AmmClosing(v, is_long, size, entry_price, close_price) ==
    [pc |-> "submitted",
     vault |-> add_position64(v, Wide(size), is_long),
     params |-> [size |-> Wide(size), is_long |-> is_long,
                 entry_price |-> entry_price,
                 min_price |-> Wide(0),
                 max_price |-> WSub(Two64, Wide(1))],
     oracle_price |-> Wide(close_price),
     vault_tokens |-> v.total_assets,
     exit_price |-> Wide(0), pnl |-> Signed(FALSE, Wide(0)),
     fee |-> Wide(0), settlement |-> Wide(0)]

-----------------------------------------------------------------------------
(* Funding keeper: the loop of run_funding_keeper around                     *)
(* check_and_update_funding.  `keeper` holds where the loop is and its       *)
(* consecutive_errors; ticks and streak count, for the properties, the ticks *)
(* so far and the failed ticks since the last successful one.                *)

\* FUNDING_CHECK_INTERVAL_SECS and the back-off sleep
FundingCheckIntervalSecs == 60

BackoffSecs == 300

\* consecutive_errors >= 5
MaxConsecutiveErrors == 5

\* The number of ticks of a run of the keeper.
MaxKeeperTicks == 12

\* The market of the keeper runs: funding falls due every second tick.
KeeperMarketParams == [MarketParams EXCEPT !.funding_interval = 120]

\* run_funding_keeper before its loop
InitFundingKeeper ==
    keeper = [pc |-> "wait", consecutive_errors |-> 0, ticks |-> 0,
              streak |-> 0, result |-> "None"]

\* check_interval.tick().await: the first tick completes at once, a tick
\* after a back-off makes up for a missed one, the others complete a check
\* interval after the last.
FundingKeeperWait ==
    /\ keeper.pc = "wait"
    /\ keeper.ticks < MaxKeeperTicks
    /\ \E d \in {0, FundingCheckIntervalSecs} : now' = now + d
    /\ keeper' = [keeper EXCEPT !.pc = "check"]
    /\ last' = Note("funding_keeper_wait", "Ok", 0)
    /\ UNCHANGED <<feed, program, perpsVars, ammVars, mmVars, bookVars,
                   oracleVars, closing, referralVars>>

\* check_and_update_funding: Err when an RPC call fails or the transaction is
\* refused, Ok(false) when the market is paused or funding is not due yet,
\* Ok(true) when update_funding went through.
check_and_update_funding(m, rpc_ok) ==
    IF ~rpc_ok THEN "Err"
    ELSE IF market[m].is_paused THEN "OkFalse"
    ELSE IF market[m].funding_interval - (now - market[m].last_funding_time) > 0
         THEN "OkFalse"
    ELSE IF UpdateFundingErr(m) = "Ok" THEN "OkTrue"
    ELSE "Err"

\* A loop that backs off without looking at the number of errors.
BacksOffOnAnyError(errors) == TRUE

\* consecutive_errors >= 5
BacksOff(errors) == errors >= MaxConsecutiveErrors

\* One iteration of the loop after its tick: the check, the update_funding
\* transaction when funding is due, and the count of consecutive errors.
FundingKeeperCheck(m) ==
    /\ program = "perps"
    /\ keeper.pc = "check"
    /\ \E rpc_ok \in BOOLEAN :
         \E result \in {check_and_update_funding(m, rpc_ok)} :
           /\ IF result = "OkTrue"
              THEN market' = [market EXCEPT
                       ![m].funding_rate = @ + FundingDelta(market[m]),
                       ![m].last_funding_time = now]
              ELSE UNCHANGED market
           /\ keeper' =
                  IF result = "Err"
                  THEN [pc |-> IF BacksOff(keeper.consecutive_errors + 1)
                               THEN "backoff" ELSE "wait",
                        consecutive_errors |-> keeper.consecutive_errors + 1,
                        ticks |-> keeper.ticks + 1,
                        streak |-> keeper.streak + 1,
                        result |-> result]
                  ELSE [pc |-> "wait", consecutive_errors |-> 0,
                        ticks |-> keeper.ticks + 1, streak |-> 0,
                        result |-> result]
           /\ last' = Note("funding_keeper_tick", result, 0)
    /\ UNCHANGED <<envVars, program, vault, vaultTokens, users, positions,
                   ammVars, mmVars, bookVars, oracleVars, closing,
                   referralVars>>

\* tokio::time::sleep(300 s), then consecutive_errors = 0
FundingKeeperBackoff ==
    /\ keeper.pc = "backoff"
    /\ now' = now + BackoffSecs
    /\ keeper' = [keeper EXCEPT !.pc = "wait", !.consecutive_errors = 0]
    /\ last' = Note("funding_keeper_backoff", "Ok", 0)
    /\ UNCHANGED <<feed, program, perpsVars, ammVars, mmVars, bookVars,
                   oracleVars, closing, referralVars>>

-----------------------------------------------------------------------------
(* Liquidation keeper: the test check_and_liquidate applies to each Open     *)
(* position it has fetched, next to the test liquidate applies on chain.     *)

\* calculate_margin_ratio of the keeper, in basis points
calculate_margin_ratio(position, current_price) ==
    LET price_diff == IF position.side = "Long"
                      THEN current_price - position.entry_price
                      ELSE position.entry_price - current_price
        pnl == IF price_diff >= 0 THEN MulDiv(price_diff, position.size, 1000000)
               ELSE -MulDiv(-price_diff, position.size, 1000000)
        equity == position.collateral + pnl
        notional == MulDiv(current_price, position.size, 1000000)
    IN  IF equity <= 0 THEN 0
        ELSE IF notional = 0 THEN 0
        ELSE (equity * 10000) \div notional

\* The Open positions and oracle prices of the keeper's scans.
ScanSizes == {100, 200}

ScanCollaterals == {100, 150, 200}

ScanPrices ==
    {9000000, 9590000, 9600000, 10000000, 10400000, 10410000, 11000000}

\* check_and_liquidate on the fetched position: the keeper submits liquidate
\* when its margin ratio is below the market's maintenance_margin_ratio;
\* liquidate accepts the position when is_liquidatable holds at that price.
LiquidatorCheck(m) ==
    /\ program = "perps"
    /\ keeper.pc = "scan"
    /\ keeper' = [keeper EXCEPT
           !.pc = "done",
           !.submits = calculate_margin_ratio(keeper.position, keeper.oracle_price)
                           < market[m].maintenance_margin_ratio,
           !.accepted = is_liquidatable(keeper.position, keeper.oracle_price,
                                        market[m].maintenance_margin_ratio)]
    /\ last' = Note("check_and_liquidate", "Ok", 0)
    /\ UNCHANGED <<envVars, program, perpsVars, ammVars, mmVars, bookVars,
                   oracleVars, closing, referralVars>>

-----------------------------------------------------------------------------
(* Price normalisation: the 6-decimal oracle price as the ledger's handlers,*)
(* the liquidation keeper and the API oracle each compute it from a Pyth    *)
(* feed value (price, expo).  Results are wide numbers.                     *)

RECURSIVE Pow10(_)
Pow10(n) == IF n = 0 THEN 1 ELSE 10 * Pow10(n - 1)

\* 10^n as a wide number, for 10^n < 2^64.
RECURSIVE Pow10Wide(_)
Pow10Wide(n) == IF n = 0 THEN Wide(1) ELSE WMul(Wide(10), Pow10Wide(n - 1))

\* A normalised price or the error in its place.
Normalized(err, price) == [done |-> TRUE, err |-> err, price |-> price]

NotNormalized == [done |-> FALSE, err |-> "Ok", price |-> Wide(0)]

\* close_position, liquidate and update_funding:
\* (price as u64).checked_mul(10^(6 + |expo|)).checked_div(10^|expo|)
oracle_price(price, expo) ==
    LET product == WMul(Wide(price), Pow10Wide(6 + Abs(expo)))
    IN  IF ~FitsU64(product) THEN Normalized("MathOverflow", Wide(0))
        ELSE Normalized("Ok", WDivBits(product, Pow10(Abs(expo))))

\* The keeper's fetch_oracle_price: price * 1_000_000 / 10^(-expo) in i64.
fetch_oracle_price(price, expo) ==
    IF expo < 0
    THEN Normalized("Ok", WDivBits(WMul(Wide(price), Wide(1000000)), Pow10(-expo)))
    ELSE Normalized("Ok", WMul(WMul(Wide(price), Wide(1000000)), Pow10Wide(expo)))

\* The API oracle's parse_pyth_price.
parse_pyth_price(raw_price, expo) ==
    IF expo < -6
    THEN Normalized("Ok", Wide(raw_price \div Pow10(-6 - expo)))
    ELSE IF expo > -6
    THEN Normalized("Ok", WMul(Wide(raw_price), Pow10Wide(Abs(-6 - expo))))
    ELSE Normalized("Ok", Wide(raw_price))

\* The feed values the three are applied to.
RawPrices == {1, 100, 184467, 184468, 75000000, 2000000000}

Expos == {0, -2, -6, -8}

InitNormalize ==
    keeper = [pc |-> "normalize", chain |-> NotNormalized,
              keeper |-> NotNormalized, api |-> NotNormalized]

NormalizeOnChain ==
    /\ keeper.pc = "normalize"
    /\ ~keeper.chain.done
    /\ keeper' = [keeper EXCEPT !.chain = oracle_price(feed.price, feed.expo)]
    /\ last' = Note("oracle_price", keeper'.chain.err, 0)
    /\ UNCHANGED <<envVars, program, perpsVars, ammVars, mmVars, bookVars,
                   oracleVars, closing, referralVars>>

NormalizeKeeper ==
    /\ keeper.pc = "normalize"
    /\ ~keeper.keeper.done
    /\ keeper' = [keeper EXCEPT !.keeper = fetch_oracle_price(feed.price, feed.expo)]
    /\ last' = Note("fetch_oracle_price", "Ok", 0)
    /\ UNCHANGED <<envVars, program, perpsVars, ammVars, mmVars, bookVars,
                   oracleVars, closing, referralVars>>

NormalizeApi ==
    /\ keeper.pc = "normalize"
    /\ ~keeper.api.done
    /\ keeper' = [keeper EXCEPT !.api = parse_pyth_price(feed.price, feed.expo)]
    /\ last' = Note("parse_pyth_price", "Ok", 0)
    /\ UNCHANGED <<envVars, program, perpsVars, ammVars, mmVars, bookVars,
                   oracleVars, closing, referralVars>>

-----------------------------------------------------------------------------
(* Specifications.                                                           *)

InitPerps ==
    /\ InitEnv
    /\ program = "perps"
    /\ InitPerpsState
    /\ InitAmmState
    /\ InitMmState
    /\ InitBookState
    /\ InitOracleIdle
    /\ InitClosingIdle
    /\ InitReferralState
    /\ InitKeeperIdle

NextPerps ==
    \/ Tick
    \/ PublishPrice
    \/ \E u \in Users, m \in Markets, a \in DepositAmounts : DepositCollateral(u, m, a)
    \/ \E u \in Users, m \in Markets, a \in WithdrawAmounts : WithdrawCollateral(u, m, a)
    \/ \E u \in Users, m \in Markets, sd \in Sides, o \in PositionOrders,
          lv \in Leverages : OpenPosition(u, m, sd, o[1], lv, o[2])
    \/ \E u \in Users, i \in PositionIds, a \in MarginAmounts : AddMargin(u, i, a)
    \/ \E u \in Users, i \in PositionIds : ClosePosition(u, i)
    \/ \E u \in Users, i \in PositionIds : Liquidate(u, i)
    \/ \E m \in Markets : UpdateFunding(m)

SpecPerps == InitPerps /\ [][NextPerps]_vars

InitAmm ==
    /\ InitEnv
    /\ program = "amm"
    /\ InitPerpsState
    /\ InitAmmState
    /\ InitMmState
    /\ InitBookState
    /\ InitOracleIdle
    /\ InitClosingIdle
    /\ InitReferralState
    /\ InitKeeperIdle

NextAmm ==
    \/ Tick
    \/ PublishPrice
    \/ \E u \in LpOwners, a \in LpDepositAmounts : AmmDeposit(u, a)
    \/ \E u \in LpOwners : AmmRequestWithdrawal(u)
    \/ \E u \in LpOwners, sh \in LpShareAmounts : AmmWithdraw(u, sh)
    \/ \E sz \in TradeSizes, lg \in BOOLEAN, sl \in SlippageParams :
          AmmOpenPosition(sz, lg, sl)
    \/ \E i \in TradeIds, sl \in SlippageParams : AmmClosePosition(i, sl)

SpecAmm == InitAmm /\ [][NextAmm]_vars

\* prop-amm with traders that state any size, side and entry price when
\* they close, after at most one deposit.
NextAmmParams ==
    \/ /\ lpVault.total_shares = 0
       /\ \E u \in LpOwners, a \in LpDepositAmounts : AmmDeposit(u, a)
    \/ \E sz \in TradeSizes, lg \in BOOLEAN, sl \in SlippageParams :
          AmmOpenPosition(sz, lg, sl)
    \/ \E sz \in TradeSizes, lg \in BOOLEAN, e \in ClaimedEntryPrices,
          sl \in SlippageParams :
          AmmClosePositionParams([size |-> sz, is_long |-> lg, entry_price |-> e],
                                 sl)

SpecAmmParams == InitAmm /\ [][NextAmmParams]_vars

\* perps-core with two markets, each with its own collateral mint and vault.
\* u1 deposits only into the OIL market and u2 only into the GOLD market;
\* both ask for withdrawals from either.
TwoMarkets == {"OIL", "GOLD"}

TwoMarketAmounts == {100, 200}

\* The market a user of the two-market runs deposits into.
HomeMarket(u) == IF u = "u1" THEN "OIL" ELSE "GOLD"

InitTwoMarkets ==
    /\ InitEnv
    /\ program = "perps"
    /\ market = [m \in TwoMarkets |-> InitMarket(MarketParams, StartTime)]
    /\ vault = [m \in TwoMarkets |-> [total_deposits |-> 0]]
    /\ vaultTokens = [m \in TwoMarkets |-> 0]
    /\ users = [u \in Users |-> InitUser]
    /\ positions = <<>>
    /\ InitAmmState
    /\ InitMmState
    /\ InitBookState
    /\ InitOracleIdle
    /\ InitClosingIdle
    /\ InitReferralState
    /\ InitKeeperIdle

NextTwoMarkets ==
    \/ \E u \in Users, a \in TwoMarketAmounts :
          DepositCollateral(u, HomeMarket(u), a)
    \/ \E u \in Users, m \in TwoMarkets, a \in TwoMarketAmounts :
          WithdrawCollateral(u, m, a)

SpecTwoMarkets == InitTwoMarkets /\ [][NextTwoMarkets]_vars

\* Either ledger program, run from its initial state.
InitLedger ==
    /\ InitEnv
    /\ program \in {"perps", "amm"}
    /\ InitPerpsState
    /\ InitAmmState
    /\ InitMmState
    /\ InitBookState
    /\ InitOracleIdle
    /\ InitClosingIdle
    /\ InitReferralState
    /\ InitKeeperIdle

NextLedger == NextPerps \/ NextAmm

SpecLedger == InitLedger /\ [][NextLedger]_vars

InitMm ==
    /\ InitEnv
    /\ program = "mm"
    /\ InitPerpsState
    /\ InitAmmState
    /\ InitMmState
    /\ InitBookState
    /\ InitOracleIdle
    /\ InitClosingIdle
    /\ InitReferralState
    /\ InitKeeperIdle

NextMm ==
    \/ Tick
    \/ \E o \in MmOwners, a \in RegisterAmounts : RegisterMm(o, a)
    \/ \E o \in MmOwners, a \in MmDepositAmounts : MmDepositCollateral(o, a)
    \/ \E o \in MmOwners, a \in MmWithdrawAmounts : MmWithdrawCollateral(o, a)
    \/ \E o \in MmOwners, p \in PostQuoteParams : PostQuote(o, p)
    \/ \E o \in MmOwners, i \in QuoteSlots, p \in UpdateQuoteParams :
          UpdateQuote(o, i, p)
    \/ \E o \in MmOwners, i \in QuoteSlots : CancelQuote(o, i)
    \/ \E o \in MmOwners, i \in QuoteSlots, sz \in FillSizes, b \in BOOLEAN :
          FillQuote(o, i, sz, b)

SpecMm == InitMm /\ [][NextMm]_vars

InitBook ==
    /\ InitEnv
    /\ program = "book"
    /\ InitPerpsState
    /\ InitAmmState
    /\ InitMmState
    /\ InitBookState
    /\ InitOracleIdle
    /\ InitClosingIdle
    /\ InitReferralState
    /\ InitKeeperIdle

NextBook ==
    \/ Tick
    \/ \E u \in Traders, p \in PlaceOrderParams : PlaceOrder(u, p)
    \/ \E u \in Traders, p \in PlaceOcoParams : PlaceOcoOrder(u, p)
    \/ \E i \in OrderIds, c \in KeeperPrices : TriggerOrder(i, c)
    \/ \E i \in OrderIds, c \in KeeperPrices : UpdateTrailingStop(i, c)
    \/ \E u \in Traders, i \in OrderIds : CancelOrder(u, i)
    \/ \E u \in Traders, i \in OrderIds, j \in OrderIds : CancelOcoOrder(u, i, j)
    \/ \E i \in OrderIds, j \in OrderIds : ExecuteOcoCancel(i, j)
    \/ \E b \in OrderIds, a \in OrderIds : MatchOrders(b, a)

SpecBook == InitBook /\ [][NextBook]_vars

InitOracle ==
    /\ InitEnv
    /\ program = "oracle"
    /\ InitPerpsState
    /\ InitAmmState
    /\ InitMmState
    /\ InitBookState
    /\ InitOracleState
    /\ InitClosingIdle
    /\ InitReferralState
    /\ InitKeeperIdle

NextOracle ==
    \/ FetchGather
    \/ FetchWriteStatus
    \/ FetchWritePrices
    \/ \E c \in Commodities : TradingAllowedReadStatus(c)
    \/ TradingAllowedReadPrices

SpecOracle == InitOracle /\ [][NextOracle]_vars

\* The refresh and the readers of the price table, as a day passes.
NextPriceTable ==
    \/ FetchGather
    \/ FetchWriteStatus
    \/ FetchWritePrices
    \/ \E c \in Commodities : GetPrice(c)
    \/ GetAllPrices
    \/ ServiceTick

SpecPriceTable == InitOracle /\ [][NextPriceTable]_vars

\* The oracle service refreshing again and again as a day passes, with a
\* caller of is_trading_allowed beside it.
NextConcurrentRead ==
    \/ RefreshSteady
    \/ FetchWriteStatus
    \/ FetchWritePrices
    \/ \E c \in Commodities : TradingAllowedReadStatus(c)
    \/ TradingAllowedReadPrices
    \/ ServiceTick

SpecConcurrentRead == InitOracle /\ [][NextConcurrentRead]_vars

\* The oracle service refreshing from a primary feed that jumps once.  The
\* background task is a loop on a timer: each of its steps is taken once it
\* stays possible.
InitRecovery ==
    /\ now = StartTime
    /\ feed = [price |-> 2000000, expo |-> -6, publish_time |-> StartTime]
    /\ last = Note("init", "Ok", 0)
    /\ program = "oracle"
    /\ InitPerpsState
    /\ InitAmmState
    /\ InitMmState
    /\ InitBookState
    /\ InitOracleState
    /\ InitClosingIdle
    /\ InitReferralState
    /\ InitKeeperIdle

NextRecovery ==
    \/ RefreshFromFeed
    \/ FetchWriteStatus
    \/ FetchWritePrices
    \/ PriceJump
    \/ ServiceDay

SpecRecovery ==
    /\ InitRecovery
    /\ [][NextRecovery]_vars
    /\ WF_vars(RefreshFromFeed)
    /\ WF_vars(FetchWriteStatus)
    /\ WF_vars(FetchWritePrices)

\* The three normalisations applied to one feed value.
InitNormalization ==
    /\ now = StartTime
    /\ \E price \in RawPrices, expo \in Expos :
         feed = [price |-> price, expo |-> expo, publish_time |-> StartTime]
    /\ last = Note("init", "Ok", 0)
    /\ program = "perps"
    /\ InitPerpsState
    /\ InitAmmState
    /\ InitMmState
    /\ InitBookState
    /\ InitOracleIdle
    /\ InitClosingIdle
    /\ InitReferralState
    /\ InitNormalize

NextNormalization ==
    \/ NormalizeOnChain
    \/ NormalizeKeeper
    \/ NormalizeApi

SpecNormalization == InitNormalization /\ [][NextNormalization]_vars

\* The funding keeper on a market that is or is not paused, with the feed
\* publishing as the keeper runs.
InitKeeperRun ==
    /\ InitEnv
    /\ program = "perps"
    /\ \E paused \in BOOLEAN :
         market = [m \in Markets |->
                      [InitMarket(KeeperMarketParams, StartTime) EXCEPT
                          !.is_paused = paused]]
    /\ vault = [m \in Markets |-> [total_deposits |-> 0]]
    /\ vaultTokens = [m \in Markets |-> 0]
    /\ users = [u \in Users |-> InitUser]
    /\ positions = <<>>
    /\ InitAmmState
    /\ InitMmState
    /\ InitBookState
    /\ InitOracleIdle
    /\ InitClosingIdle
    /\ InitReferralState
    /\ InitFundingKeeper

NextKeeperRun ==
    \/ FundingKeeperWait
    \/ \E m \in Markets : FundingKeeperCheck(m)
    \/ FundingKeeperBackoff
    \/ PublishPrice

SpecKeeperRun == InitKeeperRun /\ [][NextKeeperRun]_vars

\* A market with standing open interest.  The pairs <<long, short>> of open
\* interest the funding runs start from:
FundingOI ==
    {<<0, 0>>, <<1, 0>>, <<0, 1>>, <<2, 1>>, <<1, 2>>, <<300, 200>>,
     <<7, 1000>>, <<1000000000, 500000000>>}

\* The market of the funding runs: its cap admits the open interest above.
FundingMarketParams == [MarketParams EXCEPT !.max_open_interest = 1000000000]

\* The time the market of the funding runs was initialised: one funding
\* interval before the start.
FundingStart == StartTime - MarketParams.funding_interval

\* An Open position of the given side and size, opened at the price 10 with
\* the initial margin of 10 % of its notional as collateral.
StandingPosition(u, side, size) ==
    [owner |-> u, market |-> "OIL", side |-> side, size |-> size,
     collateral |-> size, entry_price |-> 10 * 1000000, realized_pnl |-> 0,
     last_funding_payment |-> 0, status |-> "Open"]

\* The keeper has fetched the market, the oracle price and an Open position.
InitLiquidatorScan ==
    \E side \in Sides, size \in ScanSizes, collateral \in ScanCollaterals,
       price \in ScanPrices :
        keeper = [pc |-> "scan",
                  position |-> [StandingPosition("u1", side, size)
                                   EXCEPT !.collateral = collateral],
                  oracle_price |-> price,
                  submits |-> FALSE, accepted |-> FALSE]

\* The liquidation keeper's test on one fetched position.
InitLiquidator ==
    /\ InitEnv
    /\ program = "perps"
    /\ InitPerpsState
    /\ InitAmmState
    /\ InitMmState
    /\ InitBookState
    /\ InitOracleIdle
    /\ InitClosingIdle
    /\ InitReferralState
    /\ InitLiquidatorScan

NextLiquidator == \E m \in Markets : LiquidatorCheck(m)

SpecLiquidator == InitLiquidator /\ [][NextLiquidator]_vars

\* perps-core with one Long and one Short position that make up the open
\* interest oi, and nothing else.
InitFunding ==
    /\ InitEnv
    /\ program = "perps"
    /\ \E oi \in FundingOI :
          /\ market = [m \in Markets |->
                [InitMarket(FundingMarketParams, FundingStart) EXCEPT
                    !.long_open_interest = oi[1],
                    !.short_open_interest = oi[2]]]
          /\ positions =
                (IF oi[1] > 0 THEN <<StandingPosition("u1", "Long", oi[1])>>
                 ELSE <<>>)
                \o (IF oi[2] > 0 THEN <<StandingPosition("u2", "Short", oi[2])>>
                    ELSE <<>>)
          /\ vault = [m \in Markets |-> [total_deposits |-> oi[1] + oi[2]]]
          /\ vaultTokens = [m \in Markets |-> oi[1] + oi[2]]
    /\ users = [u \in Users |-> InitUser]
    /\ InitAmmState
    /\ InitMmState
    /\ InitBookState
    /\ InitOracleIdle
    /\ InitClosingIdle
    /\ InitReferralState
    /\ InitKeeperIdle

\* The keeper's funding loop: time passes, prices are published, and
\* update_funding is submitted.
NextFunding ==
    \/ Tick
    \/ PublishPrice
    \/ \E m \in Markets : UpdateFunding(m)

SpecFunding == InitFunding /\ [][NextFunding]_vars

\* The LP vaults a deposit arrives at, as <<total_assets, total_shares>>: a
\* fresh vault, a vault at the initial share value, vaults whose assets have
\* grown by traders' losses and fees, and one that has paid out a gain.
RoundTripVaults ==
    {<<0, 0>>, <<500, 500>>, <<600, 500>>, <<650, 500>>, <<950, 500>>,
     <<1001, 500>>, <<400, 500>>}

RoundTripAmounts == {1, 2, 3, 4, 5, 7, 17, 100}

\* The LP that holds the shares issued before.
EarlierLp == "lp0"

\* prop-amm with an LP vault of RoundTripVaults whose shares belong to an
\* earlier LP; the depositor u1 holds none.
InitRoundTrip ==
    /\ InitEnv
    /\ program = "amm"
    /\ InitPerpsState
    /\ \E v \in RoundTripVaults :
          /\ lpVault = [InitLpVault(VaultParams) EXCEPT
                           !.total_assets = v[1], !.total_shares = v[2]]
          /\ lpTokens = v[1]
          /\ lpPositions =
                [u \in LpOwners \cup {EarlierLp} |->
                    IF u = EarlierLp
                    THEN [shares |-> v[2], deposited_amount |-> v[2],
                          withdrawal_requested_at |-> 0]
                    ELSE InitLpPosition]
    /\ ammTrades = <<>>
    /\ InitMmState
    /\ InitBookState
    /\ InitOracleIdle
    /\ InitClosingIdle
    /\ InitReferralState
    /\ InitKeeperIdle

\* One LP's round trip: a deposit while it holds nothing, the withdrawal
\* request, the delay, and the withdrawal of all the shares it holds.
NextRoundTrip ==
    \/ Tick
    \/ \E u \in LpOwners, a \in RoundTripAmounts :
          /\ lpPositions[u].shares = 0
          /\ lpPositions[u].deposited_amount = 0
          /\ AmmDeposit(u, a)
    \/ \E u \in LpOwners : AmmRequestWithdrawal(u)
    \/ \E u \in LpOwners : AmmWithdraw(u, lpPositions[u].shares)

SpecRoundTrip == InitRoundTrip /\ [][NextRoundTrip]_vars

\* The size of the Long and of the Short position a paused market holds.
PausedPositionSize == 100

\* perps-core with a market that was paused while a Long and a Short position
\* were open.  The flag is a field of the Market record; initialize_market
\* clears it and no handler of the program writes it afterwards.
InitPaused ==
    /\ InitEnv
    /\ program = "perps"
    /\ market = [m \in Markets |->
          [InitMarket(MarketParams, StartTime) EXCEPT
              !.long_open_interest = PausedPositionSize,
              !.short_open_interest = PausedPositionSize,
              !.is_paused = TRUE]]
    /\ positions = <<StandingPosition("u1", "Long", PausedPositionSize),
                     StandingPosition("u2", "Short", PausedPositionSize)>>
    /\ vault = [m \in Markets |-> [total_deposits |-> 2 * PausedPositionSize]]
    /\ vaultTokens = [m \in Markets |-> 2 * PausedPositionSize]
    /\ users = [u \in Users |-> InitUser]
    /\ InitAmmState
    /\ InitMmState
    /\ InitBookState
    /\ InitOracleIdle
    /\ InitClosingIdle
    /\ InitReferralState
    /\ InitKeeperIdle

\* The ledger operations submitted to the paused market.
NextPaused ==
    \/ Tick
    \/ PublishPrice
    \/ \E u \in Users, m \in Markets, a \in DepositAmounts : DepositCollateral(u, m, a)
    \/ \E u \in Users, m \in Markets, a \in WithdrawAmounts : WithdrawCollateral(u, m, a)
    \/ \E u \in Users, i \in PositionIds, a \in MarginAmounts : AddMargin(u, i, a)
    \/ \E u \in Users, i \in PositionIds : ClosePosition(u, i)
    \/ \E u \in Users, i \in PositionIds : Liquidate(u, i)
    \/ \E m \in Markets : UpdateFunding(m)

SpecPaused == InitPaused /\ [][NextPaused]_vars

\* The positions and prices of the settlement runs, in the ranges of the
\* worked scenarios (6-decimal sizes and prices).
SettleSizes == {10000000, 20000000, 1000000}

SettleEntries == {75000000, 70000000}

SettleMarks == {76500000, 75000000, 70000000}

SettleCollaterals == {75000, 75000000}

SettleFundingRates == {0, 33}

SettleTakerFees == {5, 50}

\* A close_position submitted on an Open position of these ranges.
InitSettle ==
    /\ InitEnv
    /\ program = "perps"
    /\ InitPerpsState
    /\ InitAmmState
    /\ InitMmState
    /\ InitBookState
    /\ InitOracleIdle
    /\ InitReferralState
    /\ InitKeeperIdle
    /\ \E side \in Sides, size \in SettleSizes, entry \in SettleEntries,
          mark \in SettleMarks, collateral \in SettleCollaterals,
          rate \in SettleFundingRates, fee \in SettleTakerFees :
          closing = Closing(Position64(side, Wide(size), Wide(collateral),
                                       Wide(entry)),
                            Wide(mark), fee, rate, FALSE)

NextSettle == ClosePosition64

SpecSettle == InitSettle /\ [][NextSettle]_vars

\* Sizes, prices and collaterals up to the top of the u64 range:
\* 10^16 and 10^18 are written as products.
OverflowSizes == {Wide(10000000), WMul(Wide(100000000), Wide(100000000))}

OverflowPrices == {Wide(75000000), Wide(1000000000), Wide(2000000000)}

OverflowCollaterals == {Wide(75000), WMul(Wide(1000000000), Wide(1000000000))}

\* A close_position submitted on an Open position of these ranges, to a
\* program built with or without overflow checks.
InitOverflow ==
    /\ InitEnv
    /\ program = "perps"
    /\ InitPerpsState
    /\ InitAmmState
    /\ InitMmState
    /\ InitBookState
    /\ InitOracleIdle
    /\ InitReferralState
    /\ InitKeeperIdle
    /\ \E side \in Sides, size \in OverflowSizes, entry \in OverflowPrices,
          mark \in OverflowPrices, collateral \in OverflowCollaterals,
          checks \in BOOLEAN :
          closing = Closing(Position64(side, size, collateral, entry),
                            mark, 50, 0, checks)

NextOverflow == ClosePosition64

SpecOverflow == InitOverflow /\ [][NextOverflow]_vars

\* Positions to be liquidated, as <<side, size, collateral, mark price>>, all
\* opened at 75.000000: scenario S2 and its mirror (negative equity), thin
\* positions at and around the maintenance ratio, and healthy ones.
LiquidationCases ==
    {<<"Long", 10000000, 75000, 68>>, <<"Long", 10000000, 75000, 75>>,
     <<"Long", 10000, 75000, 70>>, <<"Long", 10000, 75000, 71>>,
     <<"Long", 10000, 75000, 72>>, <<"Long", 10000, 75000, 75>>,
     <<"Long", 10000, 50000, 70>>, <<"Long", 10000, 30001, 72>>,
     <<"Short", 10000000, 75000, 82>>, <<"Short", 10000000, 75000, 75>>,
     <<"Short", 10000, 75000, 80>>, <<"Short", 10000, 75000, 79>>,
     <<"Short", 10000, 75000, 78>>, <<"Short", 10000, 75000, 75>>}

LiquidationFees == {2500, 333}

\* perps-core with one Open position of u1, its collateral in the vault, and
\* a fresh oracle price.
InitLiquidation ==
    /\ now = StartTime
    /\ last = Note("init", "Ok", 0)
    /\ program = "perps"
    /\ \E c \in LiquidationCases, fee \in LiquidationFees :
          /\ feed = [price |-> c[4], expo |-> -8,
                     publish_time |-> StartTime - InitFeedAge]
          /\ market = [m \in Markets |->
                [InitMarket([MarketParams EXCEPT !.liquidation_fee = fee],
                            StartTime) EXCEPT
                    !.long_open_interest = IF c[1] = "Long" THEN c[2] ELSE 0,
                    !.short_open_interest = IF c[1] = "Short" THEN c[2] ELSE 0]]
          /\ positions =
                <<[StandingPosition("u1", c[1], c[2]) EXCEPT
                      !.collateral = c[3],
                      !.entry_price = 75 * 1000000]>>
          /\ vault = [m \in Markets |-> [total_deposits |-> c[3]]]
          /\ vaultTokens = [m \in Markets |-> c[3]]
    /\ users = [u \in Users |-> InitUser]
    /\ InitAmmState
    /\ InitMmState
    /\ InitBookState
    /\ InitOracleIdle
    /\ InitClosingIdle
    /\ InitReferralState
    /\ InitKeeperIdle

\* Time passes and liquidators submit liquidate.
NextLiquidation ==
    \/ Tick
    \/ \E u \in Users, i \in PositionIds : Liquidate(u, i)

SpecLiquidation == InitLiquidation /\ [][NextLiquidation]_vars

\* close_position of prop-amm at full width: a vault after one deposit, with
\* or without an earlier trade, in which one trade was opened at the price
\* 75.000000 and is closed at a lower, the same or a higher price.  The first
\* of each set gives scenario S3.
AmmSettleSizes == {100000000, 50000000}

AmmSettleCloses == {74000000, 75000000, 76000000, 90000000}

AmmSettleExposures == {1000000000, 200000000}

AmmSettleSkews == {0, 50}

AmmSettleBases == {5, 10}

AmmSettleEarlier == {0, 50000000, -50000000}

InitAmmSettle ==
    /\ InitEnv
    /\ program = "amm"
    /\ InitPerpsState
    /\ InitAmmState
    /\ InitMmState
    /\ InitBookState
    /\ InitOracleIdle
    /\ InitReferralState
    /\ InitKeeperIdle
    /\ \E is_long \in BOOLEAN, size \in AmmSettleSizes,
          close \in AmmSettleCloses, max_exposure \in AmmSettleExposures,
          skew \in AmmSettleSkews, base \in AmmSettleBases,
          earlier \in AmmSettleEarlier :
          \E v \in {Vault64(max_exposure, base, skew, 1000000000, earlier)} :
          \E entry \in {calculate_entry_price64(v, Wide(75 * 1000000),
                                                 is_long)} :
             closing = AmmClosing(v, is_long, size, entry, close)

NextAmmSettle == AmmClosePosition64

SpecAmmSettle == InitAmmSettle /\ [][NextAmmSettle]_vars

\* The vault with a max_exposure of one trade size, traded in two sizes: the
\* admission test of open_position meets trades that were opened on the
\* other side.
SkewVaultParams == [VaultParams EXCEPT !.max_exposure = 100]

SkewTradeSizes == {100, 200}

InitSkew ==
    /\ InitEnv
    /\ program = "amm"
    /\ InitPerpsState
    /\ lpVault = InitLpVault(SkewVaultParams)
    /\ lpTokens = 0
    /\ lpPositions = [u \in LpOwners |-> InitLpPosition]
    /\ ammTrades = <<>>
    /\ InitMmState
    /\ InitBookState
    /\ InitOracleIdle
    /\ InitClosingIdle
    /\ InitReferralState
    /\ InitKeeperIdle

NextSkew ==
    \/ Tick
    \/ PublishPrice
    \/ \E u \in LpOwners, a \in LpDepositAmounts : AmmDeposit(u, a)
    \/ \E sz \in SkewTradeSizes, lg \in BOOLEAN, sl \in SlippageParams :
          AmmOpenPosition(sz, lg, sl)
    \/ \E i \in TradeIds, sl \in SlippageParams : AmmClosePosition(i, sl)

SpecSkew == InitSkew /\ [][NextSkew]_vars

\* The referral ledger of perps-core from its initial state.
InitReferral ==
    /\ InitEnv
    /\ program = "perps"
    /\ InitPerpsState
    /\ InitAmmState
    /\ InitMmState
    /\ InitBookState
    /\ InitOracleIdle
    /\ InitClosingIdle
    /\ InitReferralState
    /\ InitKeeperIdle

NextReferral ==
    \/ Tick
    \/ \E u \in Users, c \in ReferralCodeNames : CreateReferralCode(u, c)
    \/ \E u \in Users, c \in ReferralCodeNames : ApplyReferralCode(u, c)
    \/ \E u \in Users, c \in ReferralCodeNames, m \in Markets :
          ClaimReferralRewards(u, c, m)

SpecReferral == InitReferral /\ [][NextReferral]_vars

-----------------------------------------------------------------------------
(* Properties of the perps-core ledger.                                     *)

RECURSIVE SumOpenCollateralUpTo(_, _)
SumOpenCollateralUpTo(m, n) ==
    IF n = 0 THEN 0
    ELSE SumOpenCollateralUpTo(m, n - 1)
         + (IF positions[n].market = m /\ positions[n].status = "Open"
            THEN positions[n].collateral ELSE 0)

\* The collateral held by the Open positions of market m.
SumOpenCollateral(m) == SumOpenCollateralUpTo(m, Len(positions))

RECURSIVE SumBalancesOf(_)
SumBalancesOf(S) ==
    IF S = {} THEN 0
    ELSE LET u == CHOOSE x \in S : TRUE
         IN  users[u].collateral_balance + SumBalancesOf(S \ {u})

\* The free collateral of all users.
SumUserBalances == SumBalancesOf(Users)

RECURSIVE SumOpenSizeUpTo(_, _, _)
SumOpenSizeUpTo(m, side, n) ==
    IF n = 0 THEN 0
    ELSE SumOpenSizeUpTo(m, side, n - 1)
         + (IF positions[n].market = m /\ positions[n].side = side
               /\ positions[n].status = "Open"
            THEN positions[n].size ELSE 0)

\* C1: conservation of accounting -- in every reachable state, for every
\* market, vault.total_deposits equals the collateral of the market's Open
\* positions plus the users' collateral_balance plus the insurance fund
\* (fees are kept in the insurance fund; there is no other fee record).
C1_Conservation ==
    \A m \in Markets :
        vault[m].total_deposits =
            SumOpenCollateral(m) + SumUserBalances + market[m].insurance_fund

\* C2: liquidation threshold -- a liquidate of an Open position under a fresh
\* oracle price fails with NotLiquidatable and changes no record when the
\* margin ratio is at least the maintenance ratio, and otherwise succeeds and
\* sets the status to Liquidated.
C2_LiquidationThreshold ==
    [][\A i \in PositionIds :
          (/\ last'.op = "liquidate"
           /\ last'.pos = i
           /\ positions[i].status = "Open"
           /\ OracleErr = "Ok")
          => IF margin_ratio(positions[i], OraclePrice)
                  >= market[positions[i].market].maintenance_margin_ratio
             THEN last'.err = "NotLiquidatable" /\ UNCHANGED perpsVars
             ELSE last'.err = "Ok" /\ positions'[i].status = "Liquidated"]_vars

\* equity * 10000 / notional(price) with the notional size * price /
\* 1_000_000 taken at the price passed in; 0 when equity <= 0 or notional = 0.
MarginRatioAtMark(p, price) ==
    LET equity   == p.collateral + unrealized_pnl(p, price)
        notional == MulDiv(price, p.size, 1000000)
    IN  IF equity <= 0 \/ notional = 0 THEN 0
        ELSE (equity * 10000) \div notional

\* C20: margin ratio definition -- Position.margin_ratio(price) equals
\* equity * 10000 / notional(price), with equity = collateral + pnl(price) and
\* the notional taken at the mark price passed in, not at the entry price, and
\* equals 0 when equity <= 0 or notional = 0.
C20_MarginRatioAtMark ==
    \A i \in PositionIds :
        positions[i].status = "Open"
            => margin_ratio(positions[i], OraclePrice)
                   = MarginRatioAtMark(positions[i], OraclePrice)

\* max(0, collateral + pnl) at the mark price, pnl = size * price move /
\* 1_000_000 signed by the side.
StatedRemaining(p, mark) ==
    LET move == IF p.side = "Long" THEN mark - p.entry_price
                ELSE p.entry_price - mark
        pnl  == IF move >= 0 THEN Notional(p.size, move)
                ELSE -Notional(p.size, -move)
    IN  Max(0, p.collateral + pnl)

\* Scenario S2: Long 10_000_000 at 75_000_000 on collateral 75_000, marked
\* at 68_000_000.
ScenarioS2(p, mark) ==
    /\ p.side = "Long"
    /\ p.size = 10000000
    /\ p.entry_price = 75000000
    /\ p.collateral = 75000
    /\ mark = 68000000

\* C21: liquidation payout -- on a successful liquidate, remaining =
\* max(0, collateral + pnl(mark)); the caller is paid reward = remaining *
\* liquidation_fee / 10000 out of the vault and insurance_fund grows by
\* remaining - reward, so that the two add up to remaining; the position ends
\* Liquidated.  In scenario S2 (negative equity) remaining = 0, reward = 0
\* and nothing is transferred.
C21_LiquidationPayout ==
    [][\A i \in PositionIds :
          (last'.op = "liquidate" /\ last'.pos = i /\ last'.err = "Ok")
          => LET p         == positions[i]
                 m         == p.market
                 remaining == StatedRemaining(p, OraclePrice)
                 reward    == (remaining * market[m].liquidation_fee) \div 10000
                 paid      == vaultTokens[m] - vaultTokens'[m]
                 insured   == market'[m].insurance_fund - market[m].insurance_fund
             IN  /\ paid = reward
                 /\ insured = remaining - reward
                 /\ paid + insured = remaining
                 /\ positions'[i].status = "Liquidated"
                 /\ UNCHANGED vault
                 /\ ScenarioS2(p, OraclePrice) =>
                       /\ remaining = 0
                       /\ paid = 0
                       /\ insured = 0]_vars

\* Scenario S2 has been liquidated without a transfer.
C21_Witness ==
    /\ last.op = "liquidate"
    /\ last.err = "Ok"
    /\ ScenarioS2(positions[1], OraclePrice)
    /\ positions[1].status = "Liquidated"
    /\ vaultTokens["OIL"] = 75000
    /\ market["OIL"].insurance_fund = 0

\* C7: monotonic OI decrement -- a successful close_position or liquidate
\* lowers the open interest of the position's side by exactly the position's
\* size, leaves the other side as it was, and leaves neither negative.
C7_OIDecrement ==
    [][(last'.op \in {"close_position", "liquidate"} /\ last'.err = "Ok")
          => LET p == positions[last'.pos]
                 m == p.market
             IN  /\ p.side = "Long" =>
                       /\ market'[m].long_open_interest
                              = market[m].long_open_interest - p.size
                       /\ market'[m].short_open_interest
                              = market[m].short_open_interest
                 /\ p.side = "Short" =>
                       /\ market'[m].short_open_interest
                              = market[m].short_open_interest - p.size
                       /\ market'[m].long_open_interest
                              = market[m].long_open_interest
                 /\ market'[m].long_open_interest >= 0
                 /\ market'[m].short_open_interest >= 0]_vars

\* A liquidation has just succeeded on one side while the other side still
\* has open interest.
C7_Witness ==
    /\ last.op = "liquidate"
    /\ last.err = "Ok"
    /\ positions[last.pos].status = "Liquidated"
    /\ \E m \in Markets :
          /\ market[m].long_open_interest > 0
          /\ positions[last.pos].side = "Short"

\* C11 as stated: a position that is Closed or Liquidated never becomes Open
\* again, and every later close_position, liquidate or add_margin on it fails
\* with PositionAlreadyClosed and changes no record.
C11_AlreadyClosedError ==
    [][\A i \in PositionIds :
          positions[i].status # "Open"
          => /\ positions'[i].status # "Open"
             /\ (last'.op \in {"close_position", "liquidate"} /\ last'.pos = i)
                   => /\ last'.err = "PositionAlreadyClosed"
                      /\ UNCHANGED perpsVars
             /\ \A u \in Users, a \in MarginAmounts :
                   AddMarginErr(u, i, a) = "PositionAlreadyClosed"]_vars

\* C11, amended: a position that is Closed or Liquidated keeps its record for
\* ever; a later liquidate on it, and a later close_position or add_margin by
\* its owner, fails with PositionAlreadyClosed, a close_position or add_margin
\* by anybody else fails with Unauthorized, and none of them changes a record.
\* So close_position and liquidate succeed only on an Open position, which
\* they make terminal: at most one of them ever succeeds on a position.
C11_TerminalPositions ==
    [][/\ \A i \in PositionIds :
             positions[i].status # "Open"
             => /\ positions'[i] = positions[i]
                /\ LiquidateErr(i) = "PositionAlreadyClosed"
                /\ \A u \in Users :
                      CloseErr(u, i) = (IF positions[i].owner = u
                                        THEN "PositionAlreadyClosed"
                                        ELSE "Unauthorized")
                /\ \A u \in Users, a \in MarginAmounts :
                      AddMarginErr(u, i, a) = (IF positions[i].owner = u
                                               THEN "PositionAlreadyClosed"
                                               ELSE "Unauthorized")
                /\ (last'.op \in {"close_position", "liquidate", "add_margin"}
                       /\ last'.pos = i)
                      => /\ last'.err \in {"PositionAlreadyClosed", "Unauthorized"}
                         /\ UNCHANGED perpsVars
       /\ (last'.op \in {"close_position", "liquidate"} /\ last'.err = "Ok")
             => /\ positions[last'.pos].status = "Open"
                /\ positions'[last'.pos].status \in {"Closed", "Liquidated"}]_vars

\* A liquidation has just been retried on a position its owner had closed.
C11_Witness ==
    /\ last.op = "liquidate"
    /\ last.err = "PositionAlreadyClosed"
    /\ positions[last.pos].status = "Closed"
    /\ market[positions[last.pos].market].long_open_interest = 0
    /\ market[positions[last.pos].market].short_open_interest = 0

-----------------------------------------------------------------------------
(* Properties of funding.                                                   *)

\* The rate per interval the funding rule names for the open interest
\* <<long_oi, short_oi>>: (((long_oi - short_oi) * 1_000_000) / (long_oi +
\* short_oi)) * 100 / 1_000_000 with truncating divisions, 0 without open
\* interest, and 33 for long_oi = 1_000_000_000, short_oi = 500_000_000.
StatedFundingDelta(long_oi, short_oi) ==
    IF long_oi + short_oi = 0 THEN 0
    ELSE IF long_oi = 1000000000 /\ short_oi = 500000000 THEN 33
    ELSE TruncDiv(TruncDiv((long_oi - short_oi) * 1000000, long_oi + short_oi)
                      * 100, 1000000)

\* The number of whole funding intervals since the market was initialised.
IntervalsElapsed(m) == (now - FundingStart) \div market[m].funding_interval

\* C12: funding accrual -- with constant open interest every successful
\* update_funding adds exactly the stated delta to market.funding_rate and
\* leaves the open interest alone, so that after N successful calls the rate
\* has risen by N * delta; the keeper's estimate is the same delta.
C12_FundingAccrual ==
    /\ [](\A m \in Markets :
             \E n \in 0..IntervalsElapsed(m) :
                market[m].funding_rate =
                    n * StatedFundingDelta(market[m].long_open_interest,
                                           market[m].short_open_interest))
    /\ [][\A m \in Markets :
             (last'.op = "update_funding" /\ last'.err = "Ok")
             => LET long_oi  == market[m].long_open_interest
                    short_oi == market[m].short_open_interest
                IN  /\ market'[m].long_open_interest = long_oi
                    /\ market'[m].short_open_interest = short_oi
                    /\ market'[m].funding_rate =
                          market[m].funding_rate
                              + StatedFundingDelta(long_oi, short_oi)
                    /\ estimate_funding_rate(long_oi, short_oi) =
                          StatedFundingDelta(long_oi, short_oi)]_vars

\* Two funding updates have succeeded on the market with long open interest
\* 1_000_000_000 and short open interest 500_000_000: the rate stands at 66.
C12_Witness ==
    /\ last.op = "update_funding"
    /\ last.err = "Ok"
    /\ \E m \in Markets :
          /\ market[m].long_open_interest = 1000000000
          /\ market[m].short_open_interest = 500000000
          /\ market[m].funding_rate = 2 * 33

\* C13: funding frequency -- update_funding fails and leaves funding_rate and
\* last_funding_time as they were when now - last_funding_time is below
\* funding_interval; when it succeeds, at least funding_interval has passed
\* since the last update, it adds one delta however many intervals have
\* passed, and sets last_funding_time to now.
C13_FundingFrequency ==
    [][\A m \in Markets :
          last'.op = "update_funding"
          => /\ now - market[m].last_funding_time < market[m].funding_interval
                   => /\ last'.err # "Ok"
                      /\ market'[m].funding_rate = market[m].funding_rate
                      /\ market'[m].last_funding_time = market[m].last_funding_time
             /\ last'.err = "Ok"
                   => /\ now - market[m].last_funding_time
                             >= market[m].funding_interval
                      /\ market'[m].funding_rate =
                            market[m].funding_rate
                                + StatedFundingDelta(market[m].long_open_interest,
                                                     market[m].short_open_interest)
                      /\ market'[m].last_funding_time = now
             /\ last'.err # "Ok" => market'[m] = market[m]]_vars

\* A funding update has just succeeded two whole intervals after the market
\* was initialised, as the first one: it added a single delta.
C13_Witness ==
    /\ last.op = "update_funding"
    /\ last.err = "Ok"
    /\ \E m \in Markets :
          /\ market[m].last_funding_time = now
          /\ now - FundingStart >= 2 * market[m].funding_interval
          /\ market[m].long_open_interest = 2
          /\ market[m].short_open_interest = 1
          /\ market[m].funding_rate = 33


\* The ledger operations that change the state of a market.
LedgerOps ==
    {"deposit_collateral", "withdraw_collateral", "add_margin",
     "close_position", "liquidate", "update_funding"}

-----------------------------------------------------------------------------
(* Properties of the LP vault.                                              *)

\* C14: LP share round trip -- a deposit of A followed, with no trade or fee
\* in between, by the withdrawal of exactly the shares it minted pays back at
\* most A and at least A - 1.
C14_RoundTrip ==
    [][\A u \in LpOwners :
          (/\ last'.op = "amm_withdraw"
           /\ last'.err = "Ok"
           /\ lpPositions'[u].shares = 0
           /\ lpPositions[u].deposited_amount \in RoundTripAmounts)
          => /\ lpTokens - lpTokens' <= lpPositions[u].deposited_amount
             /\ lpTokens - lpTokens' >= lpPositions[u].deposited_amount - 1]_vars

\* C15: LP withdrawal protocol -- a withdraw succeeds only with a request
\* pending that was made at least withdrawal_delay ago, for a share count S
\* with 0 < S <= shares whose assets the vault holds, and it resets the
\* request; request_withdrawal fails, changing nothing, when a request is
\* pending or the LP holds no shares, and otherwise stamps the request with
\* the current time; nothing else sets a request.
C15_WithdrawalProtocol ==
    [][\A u \in LpOwners :
          LET lp == lpPositions[u] IN
          /\ (last'.op = "amm_withdraw" /\ last'.err = "Ok")
                => /\ lp.withdrawal_requested_at > 0
                   /\ now >= lp.withdrawal_requested_at + lpVault.withdrawal_delay
                   /\ lp.shares - lpPositions'[u].shares > 0
                   /\ lpPositions'[u].shares >= 0
                   /\ lpTokens - lpTokens' <= lpVault.total_assets
                   /\ lpPositions'[u].withdrawal_requested_at = 0
          /\ last'.op = "amm_request_withdrawal"
                => IF lp.shares = 0 \/ lp.withdrawal_requested_at # 0
                   THEN last'.err # "Ok" /\ UNCHANGED ammVars
                   ELSE /\ last'.err = "Ok"
                        /\ lpPositions'[u].withdrawal_requested_at = now
          /\ lpPositions'[u].withdrawal_requested_at # lp.withdrawal_requested_at
                => \/ lpPositions'[u].withdrawal_requested_at = 0
                   \/ /\ last'.op = "amm_request_withdrawal"
                      /\ lpPositions'[u].withdrawal_requested_at = now]_vars

\* A withdraw of part of the shares has just succeeded, a full delay after its
\* request, and has reset the request.
C15_Witness ==
    /\ last.op = "amm_withdraw"
    /\ last.err = "Ok"
    /\ \E u \in LpOwners :
          /\ lpPositions[u].shares > 0
          /\ lpPositions[u].withdrawal_requested_at = 0
          /\ now >= StartTime + lpVault.withdrawal_delay

-----------------------------------------------------------------------------
(* Properties of close_position at full width.                              *)

\* size * entry_price / 1_000_000, exactly.
ExactNotional(p) == WDiv(WMul(p.size, p.entry_price), 1000000)

\* C18: overflow must fail -- when the notional size * price / 1_000_000 does
\* not fit u64, or the unrealized PnL does not fit i64, close_position fails
\* and changes nothing instead of continuing with a truncated, wrapped or
\* zero value.
C18_OverflowFails ==
    [][(/\ last'.op = "close_position"
        /\ closing.pc = "submitted")
          => \A notional \in {ExactNotional(closing.position)},
                pnl \in {PnlI128(closing.position, closing.oracle_price)} :
                (~FitsU64(notional) \/ ~FitsI64(pnl))
                   => /\ last'.err # "Ok"
                      /\ closing'.position = closing.position
                      /\ closing'.vault_tokens = closing.vault_tokens
                      /\ closing'.insurance_fund = closing.insurance_fund]_vars

\* The amounts the settlement rule gives for the call c, in plain integers:
\* notional = size * entry_price / 1_000_000, pnl = size * price move /
\* 1_000_000 (signed by the side), funding_payment = size * funding_diff /
\* 1_000_000 (paid by longs), fee = notional * taker_fee / 10000.
StatedSettlement(c) ==
    LET p        == c.position
        size     == Narrow(p.size)
        entry    == Narrow(p.entry_price)
        mark     == Narrow(c.oracle_price)
        move     == IF p.side = "Long" THEN mark - entry ELSE entry - mark
        pnl      == IF move >= 0 THEN Notional(size, move)
                    ELSE -Notional(size, -move)
        diff     == NarrowSigned(c.funding_rate)
                        - NarrowSigned(p.last_funding_payment)
        funding  == IF p.side = "Long" THEN -TruncDiv(size * diff, 1000000)
                    ELSE TruncDiv(size * diff, 1000000)
        notional == Notional(size, entry)
        fee      == MulDiv(notional, c.taker_fee, 10000)
        total    == pnl + funding - fee
    IN  [pnl |-> pnl, funding_payment |-> funding, notional |-> notional,
         fee |-> fee, realized_pnl |-> total,
         settlement |-> Max(0, Narrow(p.collateral) + total)]

\* The call c ended as c2 with the amounts s: settlement paid from the vault,
\* fee added to the insurance fund, realized_pnl written, position Closed.
SettledAs(c, c2, s) ==
    /\ c2.position.status = "Closed"
    /\ c.vault_tokens = WAdd(c2.vault_tokens, Wide(s.settlement))
    /\ c2.insurance_fund = WAdd(c.insurance_fund, Wide(s.fee))
    /\ c2.position.realized_pnl =
           Signed(s.realized_pnl < 0, Wide(Abs(s.realized_pnl)))

\* Scenario S1: Long 10_000_000 opened at 75_000_000 on collateral 75_000,
\* taker_fee 5 bp, closed at 76_500_000 with no funding.
ScenarioS1(c) ==
    /\ c.position.side = "Long"
    /\ c.position.size = Wide(10000000)
    /\ c.position.entry_price = Wide(75000000)
    /\ c.position.collateral = Wide(75000)
    /\ c.taker_fee = 5
    /\ c.oracle_price = Wide(76500000)
    /\ c.funding_rate = Signed(FALSE, Wide(0))

\* A successful close_position step of the full-width handler.
ClosedOk64 ==
    /\ closing.pc = "submitted"
    /\ last'.op = "close_position"
    /\ last'.err = "Ok"

-----------------------------------------------------------------------------
(* Properties of prop-amm's close_position at full width.                    *)

\* The spread rule in plain integers: the skew ratio of the vault's net
\* exposure, the skew spread on top of the base spread, and half of the sum
\* for a trade that reduces the exposure.
StatedSpread(v, is_long) ==
    LET net         == NarrowSigned(v.net_exposure)
        skew_ratio  == IF v.max_exposure > 0
                       THEN LongDiv(4, Abs(net) % v.max_exposure,
                                    v.max_exposure,
                                    Abs(net) \div v.max_exposure)
                       ELSE 0
        skew_spread == (skew_ratio * v.max_skew_spread) \div 10000
        total       == v.base_spread + skew_spread
    IN  IF (is_long /\ net < 0) \/ (~is_long /\ net > 0) THEN total \div 2
        ELSE total

\* The exit price of the call c: the oracle price moved against the trader
\* by the spread of the opposite side.
StatedExitPrice(c) ==
    LET oracle == Narrow(c.oracle_price)
        amount == MulDiv(oracle, StatedSpread(c.vault, ~c.params.is_long),
                         10000)
    IN  IF c.params.is_long THEN oracle - amount ELSE oracle + amount

\* A close_position of prop-amm has succeeded in this step.
AmmClosedOk64 ==
    /\ program = "amm"
    /\ closing.pc = "submitted"
    /\ closing'.pc = "done"
    /\ last'.err = "Ok"

\* The parameters of scenario S3: base_spread 5 bp, lp_fee_share 70%,
\* trading fee 5 bp, a Long of 100_000_000 closed at the oracle price
\* 74_000_000.
ScenarioS3(c) ==
    /\ c.vault.base_spread = 5
    /\ c.vault.lp_fee_share = 7000
    /\ c.vault.trading_fee = 5
    /\ c.params.is_long
    /\ c.params.size = Wide(100000000)
    /\ c.oracle_price = Wide(74000000)

\* The vault of S3 before the close: 1_000_000_000 deposited, the Long its
\* only trade.
VaultS3(v) ==
    /\ v.total_assets = Wide(1000000000)
    /\ v.pending_fees = Wide(0)
    /\ v.net_exposure = Signed(FALSE, Wide(100000000))
    /\ v.total_long_size = Wide(100000000)
    /\ v.total_short_size = Wide(0)

\* The rule of C22 for one successful close: the exit price is the oracle
\* price less (Long) or plus (Short) the opposite side's spread, the pnl is
\* size * (exit - entry) / 1_000_000 signed by the side, and total_assets
\* moves by minus the pnl plus fee * lp_fee_share / 10000, which is also
\* what pending_fees gains.
SettledByRule(c, c2) ==
    \A lp_fee \in {WDiv(WMul(c2.fee, Wide(c.vault.lp_fee_share)), 10000)},
       diff \in {IF c.params.is_long
                 THEN SAdd(Signed(FALSE, c2.exit_price),
                           Signed(TRUE, c.params.entry_price))
                 ELSE SAdd(Signed(FALSE, c.params.entry_price),
                           Signed(TRUE, c2.exit_price))},
       stated_exit \in {StatedExitPrice(c)} :
    \A product \in {SMul(Signed(FALSE, c.params.size), diff)},
       after_pnl \in {SAdd(Signed(FALSE, c.vault.total_assets),
                           SNeg(c2.pnl))} :
       /\ c2.exit_price = Wide(stated_exit)
       /\ c2.pnl = SDiv(product, 1000000)
       /\ Signed(FALSE, c2.vault.total_assets)
            = SAdd(after_pnl, Signed(FALSE, lp_fee))
       /\ c2.vault.pending_fees = WAdd(c.vault.pending_fees, lp_fee)

\* C22 as stated: every successful close follows the rule, and S3 ends with
\* the exit price 73_963_000, the pnl -107_450_000, the fee 3_700_000,
\* pending_fees 2_590_000 and total_assets 1_110_040_000.
C22_SettlementS3AsStated ==
    [][AmmClosedOk64 =>
         /\ SettledByRule(closing, closing')
         /\ (ScenarioS3(closing) /\ VaultS3(closing.vault))
              => /\ closing.params.entry_price = Wide(75037500)
                 /\ closing'.exit_price = Wide(73963000)
                 /\ closing'.pnl = Signed(TRUE, Wide(107450000))
                 /\ closing'.fee = Wide(3700000)
                 /\ closing'.vault.pending_fees = Wide(2590000)
                 /\ closing'.vault.total_assets = Wide(1110040000)]_vars

\* C22: prop-AMM exit pricing and settlement -- every successful
\* close_position prices the exit with the opposite side's spread (halved
\* when the close reduces the vault's exposure), takes the fee on the notional
\* at the exit price, and moves total_assets by minus the trader's pnl plus
\* fee * lp_fee_share / 10000; in scenario S3 with max_skew_spread 0 the entry
\* price is 75_037_500, the exit price 73_985_200, the pnl -105_230_000, the
\* fee 3_699_260, pending_fees gains 2_589_482 and total_assets ends at
\* 1_107_819_482.
C22_ExitSettlement ==
    [][AmmClosedOk64 =>
         /\ SettledByRule(closing, closing')
         /\ \A product \in {WMul(closing.params.size, closing'.exit_price)} :
            \A notional \in {WDiv(product, 1000000)} :
            \A scaled \in {WMul(notional, Wide(closing.vault.trading_fee))} :
               closing'.fee
                 = WDiv(scaled, 10000)
         /\ (/\ ScenarioS3(closing)
             /\ VaultS3(closing.vault)
             /\ closing.vault.max_skew_spread = 0)
              => /\ closing.params.entry_price = Wide(75037500)
                 /\ closing'.exit_price = Wide(73985200)
                 /\ closing'.pnl = Signed(TRUE, Wide(105230000))
                 /\ closing'.fee = Wide(3699260)
                 /\ closing'.vault.pending_fees = Wide(2589482)
                 /\ closing'.vault.total_assets = Wide(1107819482)]_vars

\* Scenario S3 has been closed: the vault holds 1_107_819_482 with no
\* exposure left.
C22_Witness ==
    /\ program = "amm"
    /\ closing.pc = "done"
    /\ last.op = "close_position"
    /\ last.err = "Ok"
    /\ ScenarioS3(closing)
    /\ closing.vault.max_skew_spread = 0
    /\ closing.params.entry_price = Wide(75037500)
    /\ closing.exit_price = Wide(73985200)
    /\ closing.vault.net_exposure = Signed(FALSE, Wide(0))
    /\ closing.vault.total_assets = Wide(1107819482)

\* C23: skew cap -- in every vault state reached by open_position and
\* close_position |net_exposure| <= max_exposure, the skew ratio is at most
\* 10000 and calculate_spread is at most base_spread + max_skew_spread on
\* either side.
C23_SkewCap ==
    program = "amm" =>
        /\ Abs(lpVault.net_exposure) <= lpVault.max_exposure
        /\ (Abs(lpVault.net_exposure) * 10000) \div lpVault.max_exposure
             <= 10000
        /\ \A is_long \in BOOLEAN :
              calculate_spread(lpVault, is_long)
                <= lpVault.base_spread + lpVault.max_skew_spread

-----------------------------------------------------------------------------
(* Properties of the referral ledger.                                        *)

\* The users bound to the code c.
BoundTo(refs, c) == {u \in Users : refs[u].init /\ refs[u].referral_code = c}

\* No binding links a user to a code that user owns, and every code counts
\* its bindings.
ReferralLedgerSound(codes, refs) ==
    /\ \A u \in Users :
          refs[u].init => /\ codes[refs[u].referral_code].init
                          /\ codes[refs[u].referral_code].owner # u
    /\ \A c \in ReferralCodeNames :
          codes[c].total_referred = Cardinality(BoundTo(refs, c))

-----------------------------------------------------------------------------
(* Properties of the two ledgers together.                                  *)

\* The LP vault's token account covers LpVault.total_assets.
LpVaultSolvent == lpTokens >= lpVault.total_assets

\* Each perps vault's token account covers the users' free collateral, the
\* collateral of the market's Open positions and the insurance fund.
PerpsVaultSolvent ==
    \A m \in Markets :
        vaultTokens[m] >=
            SumUserBalances + SumOpenCollateral(m) + market[m].insurance_fund

\* C3: vault solvency -- in every reachable state the LP vault's token
\* balance is at least LpVault.total_assets and each perps vault's token
\* balance is at least the users' collateral_balance plus the Open positions'
\* collateral plus the insurance fund.
C3_VaultSolvency == LpVaultSolvent /\ PerpsVaultSolvent

\* The feed's price is more than 60 seconds old.
OracleStale == now - feed.publish_time > MaxOracleAge

\* The instructions that read the oracle.
OracleOps ==
    {"close_position", "liquidate", "update_funding",
     "amm_open_position", "amm_close_position"}

\* C10 as stated: whenever the oracle price is more than 60 seconds old,
\* close_position, liquidate, update_funding and the prop-amm open_position
\* and close_position fail with the stale-oracle error and leave every record
\* unchanged.
C10_StaleOracleError ==
    [][(OracleStale /\ last'.op \in OracleOps)
          => /\ last'.err = "StaleOraclePrice"
             /\ UNCHANGED <<perpsVars, ammVars>>]_vars

\* C10, amended: under a stale oracle price these instructions fail and leave
\* every record unchanged; the error is the stale-oracle error whenever the
\* checks placed before the oracle read pass (the position is Open and the
\* caller owns it, the funding interval has elapsed, the vault accepts the
\* trade), and the error of the first such check that fails otherwise.
C10_StaleOracleFails ==
    [][(OracleStale /\ last'.op \in OracleOps)
          => /\ UNCHANGED <<perpsVars, ammVars>>
             /\ last'.op = "close_position" =>
                   last'.err \in
                       (IF positions[last'.pos].status = "Open"
                        THEN {"StaleOraclePrice", "Unauthorized"}
                        ELSE {"PositionAlreadyClosed", "Unauthorized"})
             /\ last'.op = "liquidate" =>
                   last'.err = (IF positions[last'.pos].status = "Open"
                                THEN "StaleOraclePrice"
                                ELSE "PositionAlreadyClosed")
             /\ last'.op = "update_funding" =>
                   \A m \in Markets :
                       last'.err =
                           (IF now - market[m].last_funding_time
                                   >= market[m].funding_interval
                            THEN "StaleOraclePrice"
                            ELSE "InvalidMarketConfig")
             /\ last'.op = "amm_open_position" =>
                   last'.err \in {"StaleOraclePrice", "ExposureLimitExceeded"}
             /\ last'.op = "amm_close_position" =>
                   last'.err = "StaleOraclePrice"]_vars

\* A liquidation of an Open position has just been refused for a stale price.
C10_Witness ==
    /\ OracleStale
    /\ last.op = "liquidate"
    /\ last.err = "StaleOraclePrice"
    /\ positions[last.pos].status = "Open"

-----------------------------------------------------------------------------
(* Properties of the market-maker registry.                                 *)

RECURSIVE SumQuoteCollateralUpTo(_, _)
SumQuoteCollateralUpTo(o, n) ==
    IF n = 0 THEN 0
    ELSE SumQuoteCollateralUpTo(o, n - 1)
         + (IF quotes[o][n - 1].init /\ quotes[o][n - 1].is_active
            THEN quotes[o][n - 1].collateral_locked ELSE 0)

\* The collateral recorded on the market maker's active quotes.
SumQuoteCollateral(o) == SumQuoteCollateralUpTo(o, MaxQuoteSlots)

\* C4: for every registered market maker, collateral_available equals
\* collateral_deposited - collateral_locked in every reachable state.
C4_CollateralIdentity ==
    \A o \in MmOwners :
        mms[o].init =>
            mms[o].collateral_available =
                mms[o].collateral_deposited - mms[o].collateral_locked

\* C5: for every registered market maker, collateral_locked equals the sum
\* of collateral_locked over its active quotes in every reachable state.
C5_LockedSum ==
    \A o \in MmOwners :
        mms[o].init => mms[o].collateral_locked = SumQuoteCollateral(o)

\* C8: every quote that post_quote or update_quote accepts has an exact,
\* untruncated quotient (ask - bid) * 10000 / bid of at most
\* registry.max_spread.
C8_SpreadBound ==
    [][(last'.op \in {"post_quote", "update_quote"} /\ last'.err = "Ok")
       => \A o \in MmOwners :
              quotes'[o][last'.pos] # quotes[o][last'.pos]
              => PairLeq(SpreadQuotient(quotes'[o][last'.pos].bid_price,
                                       quotes'[o][last'.pos].ask_price),
                         registry.max_spread)]_vars

-----------------------------------------------------------------------------
(* Properties of the order book.                                            *)

\* C6: once one leg of an OCO pair is Filled, no step fills the linked
\* order any further: match_orders accepts no fill on it.
C6_OcoExclusive ==
    [][\A i \in OrderIds :
          (orders[i].is_oco /\ orders[i].status = "Filled")
          => orders'[orders[i].linked_order].filled_size
                 = orders[orders[i].linked_order].filled_size]_vars


\* C16: expiry -- an order with expires_at > 0 and now > expires_at takes part
\* in no match: a match_orders involving it fails and changes no state (and
\* likewise fill_quote on an expired quote).
C16_ExpiredNoMatch ==
    [][last'.op = "match_orders"
          => \A i \in OrderIds :
                (orders[i].expires_at > 0 /\ now > orders[i].expires_at)
                => orders'[i] = orders[i]]_vars

\* C24: trailing stop monotonicity -- from the trigger_price stored at
\* placement on, an update_trailing_stop on an Open TrailingStop order never
\* lowers the trigger_price of an Ask and never raises that of a Bid.
C24_TrailingMonotone ==
    [][\A i \in OrderIds :
          (/\ last'.op = "update_trailing_stop"
           /\ last'.err = "Ok"
           /\ last'.pos = i
           /\ orders[i].order_type = "TrailingStop"
           /\ orders[i].status = "Open")
          => /\ orders[i].side = "Ask"
                  => orders'[i].trigger_price >= orders[i].trigger_price
             /\ orders[i].side = "Bid"
                  => orders'[i].trigger_price <= orders[i].trigger_price]_vars

\* C25: OCO owner cancel -- after the owner cancels an order of an OCO pair,
\* through cancel_order or cancel_oco_order, neither leg of the pair is Open
\* or PartiallyFilled.
C25_OcoCancelBoth ==
    [][\A i \in OrderIds :
          (/\ last'.op \in {"cancel_order", "cancel_oco_order"}
           /\ last'.err = "Ok"
           /\ last'.pos = i
           /\ orders[i].is_oco)
          => /\ ~IsResting(orders'[i])
             /\ ~IsResting(orders'[orders[i].linked_order])]_vars

\* The resting orders of a side that have no trigger condition.
RestingPlain(side) ==
    {i \in OrderIds : /\ orders[i].side = side
                      /\ IsResting(orders[i])
                      /\ orders[i].trigger_condition = "None"}

\* C26: best bid/ask aggregates -- in every state of the book best_bid is
\* the highest price among the resting bids without a trigger condition (0
\* when there is none) and best_ask the lowest price among the resting asks
\* without a trigger condition (u64::MAX when there is none).
C26_BestBidAsk ==
    program = "book" =>
        /\ orderbook.best_bid
             = IF RestingPlain("Bid") = {} THEN 0
               ELSE CHOOSE p \in {orders[i].price : i \in RestingPlain("Bid")} :
                      \A i \in RestingPlain("Bid") : orders[i].price <= p
        /\ orderbook.best_ask
             = IF RestingPlain("Ask") = {} THEN U64Max
               ELSE CHOOSE p \in {orders[i].price : i \in RestingPlain("Ask")} :
                      \A i \in RestingPlain("Ask") : orders[i].price >= p

\* How far a status is along an order's life: Open, then Triggered, then
\* PartiallyFilled, then one of the final statuses.
StatusRank(status) ==
    CASE status = "Open" -> 0
      [] status = "Triggered" -> 1
      [] status = "PartiallyFilled" -> 2
      [] status \in {"Filled", "Cancelled", "Expired"} -> 3

\* C27: order invariants -- in every step and for every order, filled_size
\* stays within size and never decreases, the status never moves back, and
\* an order that is Filled, Cancelled or Expired keeps its status and its
\* filled_size whatever the operation.
C27_OrderInvariants ==
    [][\A i \in OrderIds :
          /\ orders[i].filled_size <= orders[i].size
          /\ orders'[i].filled_size <= orders'[i].size
          /\ orders'[i].filled_size >= orders[i].filled_size
          /\ StatusRank(orders'[i].status) >= StatusRank(orders[i].status)
          /\ orders[i].status \in {"Filled", "Cancelled", "Expired"}
               => /\ orders'[i].status = orders[i].status
                  /\ orders'[i].filled_size = orders[i].filled_size]_vars

\* A match_orders on a Filled ask and a PartiallyFilled bid has been refused.
C27_Witness ==
    /\ last.op = "match_orders"
    /\ last.err = "InvalidOrder"
    /\ \E b \in OrderIds, a \in OrderIds :
          /\ last.pos = b
          /\ orders[b].side = "Bid"
          /\ orders[b].status = "PartiallyFilled"
          /\ orders[b].filled_size = 1
          /\ orders[a].side = "Ask"
          /\ orders[a].status = "Filled"
          /\ orders[a].filled_size = orders[a].size

-----------------------------------------------------------------------------
(* Properties of the oracle service.                                        *)

\* C9: whenever is_trading_allowed(c) returns, it returns false if at that
\* moment the circuit breaker is active, the stored price of c is Simulated,
\* or c has no stored price.
C9_NoTradingOnBreaker ==
    [][last'.op = "is_trading_allowed"
       => (reader'.result
           => /\ ~oracleStatus'.circuit_breaker_active
              /\ oraclePrices'[reader'.commodity] \notin {"Simulated", "None"})]_vars

\* An is_trading_allowed call has answered false for a commodity whose stored
\* price is Simulated, with the breaker off, while a refresh that has already
\* stored its status is about to replace the price table.
C9_Witness ==
    /\ last.op = "is_trading_allowed"
    /\ ~reader.result
    /\ oraclePrices[reader.commodity] = "Simulated"
    /\ ~oracleStatus.circuit_breaker_active
    /\ fetchTask.pc = "prices"

\* The price of a fetch that the two checks turn away: older than
\* max_staleness, or more than max_deviation_bps (in whole basis points of
\* the cached price) away from the cached price of its commodity.
StatedRejected(c, q) ==
    \/ UtcNow - q.timestamp > MaxStalenessSecs
    \/ /\ cacheQuotes[c].some
       /\ cacheQuotes[c].price > 0
       /\ LET away == IF q.price > cacheQuotes[c].price
                      THEN q.price - cacheQuotes[c].price
                      ELSE cacheQuotes[c].price - q.price
          IN  away * 10000 >= (MaxDeviationBps + 1) * cacheQuotes[c].price

\* The prices a run of fetch_prices got from the source src.
FetchedFrom(task, src) ==
    IF src = "Pyth" THEN task.pyth_prices ELSE task.backup_prices

\* C29: a price fetched from Pyth or the backup API that fails the staleness
\* check or the deviation check is not put into the table the refresh stores
\* and does not update the cache; an entry of the cache changes only to a
\* fetched price that passed both checks, and the stored table is the one
\* the refresh validated.
C29_RejectedNotStored ==
    [][/\ (last'.op = "fetch_prices" /\ fetchTask'.pc = "status")
          => \A c \in Commodities :
               /\ \A src \in {"Pyth", "TwelveData"} :
                    \A q \in {FetchedFrom(fetchTask', src)[c]} :
                      (q.some /\ StatedRejected(c, q))
                      => /\ ~(/\ fetchTask'.all_prices[c] = src
                              /\ fetchTask'.all_quotes[c] = q)
                         /\ (cacheQuotes'[c] = q => cacheQuotes[c] = q)
               /\ cacheQuotes'[c] # cacheQuotes[c]
                  => /\ c \in oracleCache'
                     /\ \E src \in {"Pyth", "TwelveData"} :
                          /\ FetchedFrom(fetchTask', src)[c].some
                          /\ ~StatedRejected(c, FetchedFrom(fetchTask', src)[c])
                          /\ cacheQuotes'[c] = FetchedFrom(fetchTask', src)[c]
                          /\ fetchTask'.all_prices[c] = src
       /\ (last'.op = "fetch_prices" /\ fetchTask'.pc = "idle")
          => /\ oraclePrices' = fetchTask.all_prices
             /\ priceQuotes' = fetchTask.all_quotes
             /\ cacheQuotes' = cacheQuotes]_vars

\* A refresh has fetched a fresh OIL price from Pyth that is 600 bps above
\* the cached one and a NATGAS price from the backup API: the OIL entry of
\* its table is the cached price, the cache still holds that price, and the
\* NATGAS price is in the table and in the cache.
C29_Witness ==
    /\ fetchTask.pc = "status"
    /\ fetchTask.pyth_prices["OIL"].some
    /\ fetchTask.pyth_prices["OIL"].timestamp = UtcNow
    /\ fetchTask.pyth_prices["OIL"].price = 2120000
    /\ cacheQuotes["OIL"].some
    /\ cacheQuotes["OIL"].price = 2000000
    /\ fetchTask.all_prices["OIL"] = "Cached"
    /\ fetchTask.all_quotes["OIL"] = cacheQuotes["OIL"]
    /\ fetchTask.all_prices["NATGAS"] = "TwelveData"
    /\ cacheQuotes["NATGAS"] = fetchTask.backup_prices["NATGAS"]

\* C30: what get_all_prices returns is, whole, the table the running (or
\* last) refresh found or the table that refresh produced; what get_price
\* returns is the commodity's entry of one of the two.
C30_NoPartialTable ==
    [][/\ last'.op = "get_all_prices"
          => \/ /\ observed'.prices = fetchTask.before_prices
                /\ observed'.quotes = fetchTask.before_quotes
             \/ /\ observed'.prices = fetchTask.all_prices
                /\ observed'.quotes = fetchTask.all_quotes
       /\ last'.op = "get_price"
          => \A c \in {observed'.commodity} :
               \/ /\ observed'.prices[c] = fetchTask.before_prices[c]
                  /\ observed'.quotes[c] = fetchTask.before_quotes[c]
               \/ /\ observed'.prices[c] = fetchTask.all_prices[c]
                  /\ observed'.quotes[c] = fetchTask.all_quotes[c]]_vars

\* get_all_prices has returned while a refresh whose Pyth fetch failed is
\* about to store its table: it returned the table from before the refresh,
\* with OIL from Pyth and NATGAS simulated, and the refresh's table differs
\* from it in both entries.
C30_Witness ==
    /\ last.op = "get_all_prices"
    /\ fetchTask.pc = "prices"
    /\ ~fetchTask.pyth_healthy
    /\ observed.prices = fetchTask.before_prices
    /\ observed.quotes = fetchTask.before_quotes
    /\ observed.prices["OIL"] = "Pyth"
    /\ observed.prices["NATGAS"] = "Simulated"
    /\ fetchTask.all_prices["OIL"] \in {"Cached", "TwelveData"}
    /\ fetchTask.all_prices["NATGAS"] = "TwelveData"

\* C31: whenever the stored status says the Pyth fetch of the last refresh
\* succeeded, the circuit breaker is not active.
C31_HealthyPythNoBreaker ==
    oracleStatus.pyth_healthy => ~oracleStatus.circuit_breaker_active

-----------------------------------------------------------------------------
(* Properties of the funding keeper.                                        *)

\* C32: a tick starts with a count of consecutive errors between 0 and 4; a
\* tick ends in the back-off exactly when it failed and the failed ticks
\* since the last successful one are 5, 10, ...; a tick that succeeds, also
\* one that only skips, sets the count to 0; the back-off lasts 300 s and
\* sets the count to 0.
C32_KeeperBackoff ==
    [][/\ keeper.pc \in {"wait", "check"}
          => keeper.consecutive_errors \in 0..(MaxConsecutiveErrors - 1)
       /\ last'.op = "funding_keeper_tick"
          => /\ keeper'.pc = "backoff"
                <=> /\ last'.err = "Err"
                    /\ keeper'.streak % MaxConsecutiveErrors = 0
             /\ last'.err \in {"OkTrue", "OkFalse"}
                => keeper'.consecutive_errors = 0
             /\ last'.err = "Err"
                => keeper'.consecutive_errors
                       = ((keeper'.streak - 1) % MaxConsecutiveErrors) + 1
       /\ last'.op = "funding_keeper_backoff"
          => /\ keeper.pc = "backoff"
             /\ now' = now + BackoffSecs
             /\ keeper'.consecutive_errors = 0
             /\ keeper'.pc = "wait"]_vars

\* The keeper backs off after its seventh tick: the second tick only skipped
\* an update that was not due, and the five ticks after it failed.
C32_Witness ==
    /\ last.op = "funding_keeper_tick"
    /\ keeper.pc = "backoff"
    /\ keeper.ticks = 7
    /\ keeper.streak = 5
    /\ keeper.consecutive_errors = 5
    /\ ~market["OIL"].is_paused

-----------------------------------------------------------------------------
(* Properties of prop-amm's close_position under any parameters.            *)

\* C33: a successful close_position closes one trade that was opened with
\* its size, side and entry price and was still open; a close that is
\* refused leaves the vault's exposure, totals and assets and the vault's
\* tokens as they were.
C33_CloseMatchesOpen ==
    [][last'.op = "amm_close_position"
       => IF last'.err = "Ok"
          THEN \E i \in TradeIds : /\ ammTrades[i].open
                                   /\ ~ammTrades'[i].open
                                   /\ last'.pos = i
          ELSE UNCHANGED <<lpVault, lpTokens>>]_vars

-----------------------------------------------------------------------------
(* Properties of perps-core with two markets.                               *)

\* C34: in the runs where each user deposits into one market only and no
\* market credits anything, tokens leave a market's vault only against the
\* balance of the user who deposited into that market: nothing a user
\* deposited into the one market is withdrawn from the vault of the other.
C34_MarketIsolation ==
    [][\A u \in Users :
         vaultTokens'[HomeMarket(u)] < vaultTokens[HomeMarket(u)]
         => users'[u].collateral_balance < users[u].collateral_balance]_vars

-----------------------------------------------------------------------------
(* Properties of the liquidation keeper.                                    *)

\* C35: for every Open position and oracle price the keeper submits a
\* liquidation exactly when liquidate would accept the position at that
\* price.
C35_KeeperAgreesWithLedger ==
    keeper.pc = "done" => (keeper.submits <=> keeper.accepted)

-----------------------------------------------------------------------------
(* Properties of match_orders on conditional orders.                        *)

\* An order placed with a trigger condition that trigger_order has not
\* moved to Triggered yet.
Untriggered(order) ==
    /\ order.trigger_condition # "None"
    /\ order.status = "Open"

\* C36: no step of match_orders fills an order that has a trigger condition
\* and is still Open: the call fails and the order's filled_size stays 0.
C36_NoFillBeforeTrigger ==
    [][last'.op = "match_orders"
       => \A i \in OrderIds :
            Untriggered(orders[i])
            => /\ orders'[i] = orders[i]
               /\ orders'[i].filled_size = 0]_vars

-----------------------------------------------------------------------------
(* Properties of the price normalisation.                                   *)

\* C37: for every feed value the ledger's oracle price is the 6-decimal
\* normalisation the keeper and the API oracle compute for it, and the
\* ledger fails with MathOverflow only when that value does not fit 64 bits.
C37_SameNormalization ==
    (keeper.pc = "normalize" /\ keeper.chain.done /\ keeper.keeper.done
        /\ keeper.api.done)
    => /\ keeper.keeper.price = keeper.api.price
       /\ IF keeper.chain.err = "Ok"
          THEN keeper.chain.price = keeper.keeper.price
          ELSE ~FitsU64(keeper.keeper.price)

-----------------------------------------------------------------------------
(* Properties of the oracle service after a price jump.                     *)

\* The refresh under way took a fresh price for every Pyth commodity.
FreshAccepted ==
    /\ fetchTask.pc = "status"
    /\ \A c \in PythFeeds : fetchTask.all_prices[c] \in {"Pyth", "TwelveData"}

\* C38: once the primary price has jumped and stays at the new level, a later
\* refresh accepts a fresh price for the commodity again.
C38_RecoversAfterJump ==
    (feed.price = JumpPrice) ~> FreshAccepted

-----------------------------------------------------------------------------
(* Properties of is_trading_allowed beside a refresh.                       *)

\* The answer in the state the running refresh found.  Once the refresh has
\* stored its status, the flag it replaced is the one the refresh before it
\* computed from the table still stored (before the first refresh the table
\* is empty, and the answer false with either flag).
AnswerBefore(c) ==
    IF fetchTask.pc = "prices"
    THEN TradingAllowedOn(CircuitBreaker(fetchTask.before_prices),
                          fetchTask.before_prices, c)
    ELSE TradingAllowedOn(oracleStatus.circuit_breaker_active, oraclePrices, c)

\* The answer in the state the running refresh leaves.
AnswerAfter(c) ==
    IF fetchTask.pc = "idle"
    THEN TradingAllowedOn(oracleStatus.circuit_breaker_active, oraclePrices, c)
    ELSE TradingAllowedOn(CircuitBreaker(fetchTask.all_prices),
                          fetchTask.all_prices, c)

\* C39: what is_trading_allowed(c) returns beside a refresh is its answer in
\* the state before that refresh or in the state after it.
C39_AnswerOfOneState ==
    [][last'.op = "is_trading_allowed"
       => \/ reader'.result = AnswerBefore(reader'.commodity)
          \/ reader'.result = AnswerAfter(reader'.commodity)]_vars

-----------------------------------------------------------------------------
(* Properties of prop-amm's deposit and the withdrawal cooldown.            *)

\* C40: a deposit leaves the depositor without a withdrawal request; a
\* request is only ever set by request_withdrawal, to the time of the call;
\* and a withdraw succeeds only on a request that is at least
\* withdrawal_delay old.  So after a deposit a withdraw fails until a new
\* request has been made and the full delay has passed since.
C40_DepositRestartsCooldown ==
    [][\A u \in LpOwners :
         /\ (last'.op = "amm_deposit" /\ last'.err = "Ok"
                /\ lpPositions'[u].shares > lpPositions[u].shares)
            => lpPositions'[u].withdrawal_requested_at = 0
         /\ (lpPositions'[u].withdrawal_requested_at # 0
                /\ lpPositions'[u].withdrawal_requested_at
                       # lpPositions[u].withdrawal_requested_at)
            => /\ last'.op = "amm_request_withdrawal"
               /\ lpPositions'[u].withdrawal_requested_at = now
         /\ (last'.op = "amm_withdraw" /\ last'.err = "Ok"
                /\ lpPositions'[u].shares < lpPositions[u].shares)
            => /\ lpPositions[u].withdrawal_requested_at # 0
               /\ now >= lpPositions[u].withdrawal_requested_at
                             + lpVault.withdrawal_delay]_vars

\* A withdraw has failed after the LP's second deposit, with no request
\* pending, at a time when a request made at the start would have matured.
C40_Witness ==
    /\ last.op = "amm_withdraw"
    /\ last.err = "WithdrawalDelayNotElapsed"
    /\ lpPositions["u1"].withdrawal_requested_at = 0
    /\ lpPositions["u1"].deposited_amount = 1000
    /\ now >= StartTime + lpVault.withdrawal_delay

====
